---- MODULE Spec2Model ----
(***************************************************************************)
(* Model of the dominance-pruning optimizer of src/generate_report.py:     *)
(* KnapsackWeight, KnapsackItem, BestKnapsackItemForModifierGTE,           *)
(* KnapsackItemSlot (reduction, combination, normalisation) and            *)
(* KnapsackSolution (budget queries).                                      *)
(*                                                                         *)
(* Numbers.  Costs and modifiers are Python floats.  They are modelled as  *)
(* exact rationals <<numerator, denominator>> in lowest terms; values are  *)
(* integers.  Identity labels are numbered in their string order           *)
(* ("A" = 1, "B" = 2, ...), a name is a tuple of labels, as in the code.   *)
(*                                                                         *)
(* Objects.  A KnapsackItem is immutable except for its alternatives set,  *)
(* which is a mutable object that several items may share.  The sets live  *)
(* in a heap (a sequence of sets of names); an item holds the index of its *)
(* set in the field alternatives.                                          *)
(***************************************************************************)
EXTENDS Integers, Sequences, FiniteSets, TLC

(***************************************************************************)
(* Bounds of the model.                                                    *)
(***************************************************************************)
\* items of a section
MaxItems == 4

\* picks requested of a section (count)
MaxCount == 2

\* max_weight_cost ranges over 1..MaxCapacity
MaxCapacity == 2

\* extra_weight_cost ranges over 0..MaxExtra
MaxExtra == 1

\* the queried cost ranges over 0..MaxBudget
MaxBudget == 3

\* the queried count ranges over 0..MaxQueryCount
MaxQueryCount == 2

\* sections combined by combine_in_pairs
MaxSlots == 4

\* calls of BestKnapsackItemForModifierGTE.add in the inline test
MaxAdds == 3

\* modifiers and values of the inline test range over 1..MaxTestNumber
MaxTestNumber == 3

\* positions the Optimizer is built for
MaxPositions == 2

\* solutions of one position
MaxPieces == 2

\* entries passed to one call of Database.add_entries
MaxEntries == 2

\* calls of BestSolutionWithWeightMultiplierAtLeast.add
MaxSolutions == 3

\* weight multipliers of the added solutions range over 1..MaxMultiplier
MaxMultiplier == 3

\* values of the added solutions range over 1..MaxSolutionValue
MaxSolutionValue == 3

\* weights of the solutions combined by Solution.__add__: 0..MaxSolutionWeight
MaxSolutionWeight == 2

\* rows handed to an EquipmentDatabase, EquipmentCollection or Reader
MaxRows == 2

\* significant bits of a float of the operator runs (binary64 has 53)
MantissaBits == 3

\* the costs of the operands range over 1..MaxOperandCost
MaxOperandCost == 3

\* the modifiers of the operands range over 1, 5/4, .. in MaxOperandSteps
\* steps of a quarter
MaxOperandSteps == 2

\* the values of the operands range over 1..MaxOperandValue
MaxOperandValue == 2

(***************************************************************************)
(* Rational arithmetic (float arithmetic on the model's inputs).           *)
(***************************************************************************)
RECURSIVE GCD(_, _)
GCD(a, b) == IF b = 0 THEN a ELSE GCD(b, a % b)

Rat(n, d) == LET g == GCD(n, d) IN IF g = 0 THEN <<0, 1>> ELSE <<n \div g, d \div g>>

RLt(a, b) == a[1] * b[2] < b[1] * a[2]

RLe(a, b) == a[1] * b[2] <= b[1] * a[2]

RAdd(a, b) == Rat(a[1] * b[2] + b[1] * a[2], a[2] * b[2])

RMul(a, b) == Rat(a[1] * b[1], a[2] * b[2])

RDiv(a, b) == Rat(a[1] * b[2], a[2] * b[1])

One == <<1, 1>>

Zero == <<0, 1>>

None == [none |-> TRUE]

(***************************************************************************)
(* KnapsackWeight                                                          *)
(***************************************************************************)
KnapsackWeight(cost, modifier) == [cost |-> cost, modifier |-> modifier]

has_modifier(w) == w.modifier # One

WeightEq(a, b) == <<a.cost, a.modifier>> = <<b.cost, b.modifier>>

\* an order by cost alone
WeightLtByCost(a, b) == RLt(a.cost, b.cost)

WeightLt(a, b) ==
    \/ RLt(a.cost, b.cost)
    \/ a.cost = b.cost /\ RLt(b.modifier, a.modifier)

\* functools.total_ordering: a > b is "not a < b and a != b"
WeightGt(a, b) == ~WeightLt(a, b) /\ ~WeightEq(a, b)

WeightAdd(a, b) ==
    KnapsackWeight(RAdd(a.cost, b.cost), RMul(a.modifier, b.modifier))

(***************************************************************************)
(* KnapsackItem                                                            *)
(***************************************************************************)
KnapsackItem(weight, value, name, alternatives) ==
    [weight |-> weight, value |-> value, name |-> name,
     alternatives |-> alternatives]

\* Python's tuple comparison: the first differing element decides, a proper
\* prefix is smaller.
RECURSIVE TupleLt(_, _)
TupleLt(s, t) ==
    IF t = <<>> THEN FALSE
    ELSE IF s = <<>> THEN TRUE
    ELSE IF Head(s) # Head(t) THEN Head(s) < Head(t)
    ELSE TupleLt(Tail(s), Tail(t))

ItemLt(a, b) ==
    \/ WeightLt(a.weight, b.weight)
    \/ WeightEq(a.weight, b.weight) /\ a.value > b.value
    \/ a.value = b.value /\ TupleLt(a.name, b.name)

(***************************************************************************)
(* sorted(items): CPython's list sort for a list shorter than 64 elements  *)
(* finds the leading run (reversing a strictly descending one) and inserts *)
(* the remaining elements by binary insertion; every comparison is         *)
(* KnapsackItem.__lt__.                                                    *)
(***************************************************************************)
Reverse(s) == [i \in 1..Len(s) |-> s[Len(s) + 1 - i]]

RECURSIVE CountRun(_, _, _)
CountRun(a, r, descending) ==
    IF r < Len(a) /\ (ItemLt(a[r + 1], a[r]) <=> descending)
    THEN CountRun(a, r + 1, descending)
    ELSE r

RECURSIVE BinarySearch(_, _, _, _)
BinarySearch(a, pivot, l, r) ==
    IF l < r
    THEN LET p == l + ((r - l) \div 2)
         IN IF ItemLt(pivot, a[p + 1])
            THEN BinarySearch(a, pivot, l, p)
            ELSE BinarySearch(a, pivot, p + 1, r)
    ELSE l

RECURSIVE BinarySort(_, _)
BinarySort(a, start) ==
    IF start > Len(a) THEN a
    ELSE LET pivot == a[start]
             l == BinarySearch(a, pivot, 0, start - 1)
             moved == SubSeq(a, 1, l) \o <<pivot>> \o SubSeq(a, l + 1, start - 1)
                          \o SubSeq(a, start + 1, Len(a))
         IN BinarySort(moved, start + 1)

sorted(a) ==
    IF Len(a) < 2 THEN a
    ELSE LET descending == ItemLt(a[2], a[1])
             r == CountRun(a, 2, descending)
             run == IF descending
                    THEN Reverse(SubSeq(a, 1, r)) \o SubSeq(a, r + 1, Len(a))
                    ELSE a
         IN BinarySort(run, r + 1)

(***************************************************************************)
(* BestKnapsackItemForModifierGTE: _keys is a list of modifiers, _dict     *)
(* maps each key to an item.  Indices are 0-based as in the code; the      *)
(* model's sequences are 1-based, so a[i] of the code is a[i + 1] here.    *)
(***************************************************************************)
EmptyBest == [keys |-> <<>>, dict |-> <<>>]

RECURSIVE bisect_left(_, _, _, _)
bisect_left(a, x, lo, hi) ==
    IF lo < hi
    THEN LET mid == (lo + hi) \div 2
         IN IF RLt(a[mid + 1], x)
            THEN bisect_left(a, x, mid + 1, hi)
            ELSE bisect_left(a, x, lo, mid)
    ELSE lo

DictSet(d, key, item) ==
    [k \in DOMAIN d \cup {key} |-> IF k = key THEN item ELSE d[k]]

\* an insertion that puts the new key at the end of the list
InsertLast(s, index, x) == s \o <<x>>

InsertAt(s, index, x) ==
    SubSeq(s, 1, index) \o <<x>> \o SubSeq(s, index + 1, Len(s))

\* lines 174-182: walk backward and make any lesser values greater
RECURSIVE WalkBackward(_, _, _, _)
WalkBackward(keys, d, index, item) ==
    LET prior == index - 1
    IN IF prior < 0 THEN d
       ELSE IF d[keys[prior + 1]].value >= item.value THEN d
       ELSE WalkBackward(keys, DictSet(d, keys[prior + 1], item), prior, item)

BestAdd(best, item) ==
    LET key == item.weight.modifier
        index == bisect_left(best.keys, key, 0, Len(best.keys))
        present == index < Len(best.keys) /\ best.keys[index + 1] = key
        keys1 == IF present THEN best.keys ELSE InsertAt(best.keys, index, key)
        dict1 == IF present
                 THEN IF best.dict[key].value < item.value
                      THEN DictSet(best.dict, key, item)
                      ELSE best.dict
                 ELSE DictSet(best.dict, key, item)
        next_index == index + 1
        dict2 == IF next_index < Len(keys1)
                    /\ dict1[keys1[next_index + 1]].value > item.value
                 THEN DictSet(dict1, key, dict1[keys1[next_index + 1]])
                 ELSE dict1
    IN [keys |-> keys1, dict |-> WalkBackward(keys1, dict2, index, item)]

\* a lookup that falls back to the entry of the largest key
BestLookupClamped(best, modifier) ==
    LET index == bisect_left(best.keys, modifier, 0, Len(best.keys))
    IN IF index < Len(best.keys)
       THEN [raised |-> FALSE, item |-> best.dict[best.keys[index + 1]]]
       ELSE IF Len(best.keys) > 0
            THEN [raised |-> FALSE, item |-> best.dict[best.keys[Len(best.keys)]]]
            ELSE [raised |-> TRUE, item |-> None]

\* lookup raises IndexError when no key is >= the item's modifier
BestLookup(best, modifier) ==
    LET index == bisect_left(best.keys, modifier, 0, Len(best.keys))
    IN IF index < Len(best.keys)
       THEN [raised |-> FALSE, item |-> best.dict[best.keys[index + 1]]]
       ELSE [raised |-> TRUE, item |-> None]

(***************************************************************************)
(* KnapsackItem.__add__ and sum(items, KnapsackItem.ZERO).  The result     *)
(* owns a new alternatives set, allocated at heap index `fresh`.           *)
(***************************************************************************)
\* a combination that puts the second identity first
ItemAddReversed(a, b, fresh) ==
    KnapsackItem(WeightAdd(a.weight, b.weight), a.value + b.value,
                 b.name \o a.name, fresh)

ItemAdd(a, b, fresh) ==
    KnapsackItem(WeightAdd(a.weight, b.weight), a.value + b.value,
                 a.name \o b.name, fresh)

\* KnapsackItem.ZERO: weight 0.0 with modifier 1.0, value 0.0, name None
\* (filtered out of the name sum, so it contributes the empty tuple)
ZERO == KnapsackItem(KnapsackWeight(Zero, One), 0, <<>>, 0)

RECURSIVE SumItems(_, _, _)
SumItems(items, start, fresh) ==
    IF items = <<>> THEN start
    ELSE SumItems(Tail(items), ItemAdd(start, Head(items), fresh), fresh)

RECURSIVE UnionAlternatives(_, _)
UnionAlternatives(items, heap) ==
    IF items = <<>> THEN {}
    ELSE heap[Head(items).alternatives] \cup UnionAlternatives(Tail(items), heap)

\* selections of r items in which an item may be taken again
RECURSIVE SelectionsWithRepetition(_, _)
SelectionsWithRepetition(items, r) ==
    IF r = 0 THEN << <<>> >>
    ELSE LET rest == SelectionsWithRepetition(items, r - 1)
         IN [k \in 1..(Len(items) * Len(rest)) |->
                <<items[((k - 1) \div Len(rest)) + 1]>>
                    \o rest[((k - 1) % Len(rest)) + 1]]

\* itertools.combinations(items, r): index tuples in lexicographic order
RECURSIVE Combinations(_, _)
Combinations(items, r) ==
    IF r = 0 THEN << <<>> >>
    ELSE IF Len(items) < r THEN <<>>
    ELSE LET with == Combinations(Tail(items), r - 1)
         IN [i \in 1..Len(with) |-> <<Head(items)>> \o with[i]]
                \o Combinations(Tail(items), r)

\* itertools.product(*([items] * r))
RECURSIVE Product(_, _)
Product(items, r) ==
    IF r = 0 THEN << <<>> >>
    ELSE LET rest == Product(items, r - 1)
             row(i) == [j \in 1..Len(rest) |-> <<items[i]>> \o rest[j]]
             RECURSIVE rows(_)
             rows(i) == IF i > Len(items) THEN <<>> ELSE row(i) \o rows(i + 1)
         IN rows(1)

(***************************************************************************)
(* KnapsackItemSlot.__init__ (lines 221-304).  A frame holds the locals of *)
(* one constructor call and the heap of alternatives sets:                 *)
(*   pc = "sort"  at line 229, the top of the outer loop                   *)
(*   pc = "scan"  at line 239, the test of the inner loop                  *)
(*   pc = "done"  after line 302                                           *)
(***************************************************************************)
Frame(items, count, allow_duplicates, sort, heap) ==
    [pc |-> "sort", items |-> items, count |-> count,
     allow_duplicates |-> allow_duplicates, sort |-> sort, index |-> 0,
     best_for_modifier_gte |-> EmptyBest, last_top_survivor |-> None,
     lesser_item_count |-> <<>>, has_modifiers |-> FALSE, heap |-> heap,
     passes |-> 0]

Get(d, key, default) == IF key \in DOMAIN d THEN d[key] ELSE default

\* a deletion that is off by one
DeleteNext(s, index) == SubSeq(s, 1, index + 1) \o SubSeq(s, index + 3, Len(s))

DeleteAt(s, index) == SubSeq(s, 1, index) \o SubSeq(s, index + 2, Len(s))

\* lines 229-238
BeginPass(f) ==
    [f EXCEPT !.pc = "scan",
              !.items = IF f.sort THEN sorted(f.items) ELSE f.items,
              !.sort = TRUE,
              !.index = 0,
              !.best_for_modifier_gte = EmptyBest,
              !.last_top_survivor = None,
              !.lesser_item_count = <<>>,
              !.passes = f.passes + 1]

\* lines 249-250: the test against the possible dominator
IsDominated(item, possible_dominator) ==
    \/ item.value < possible_dominator.value
    \/ /\ item.value = possible_dominator.value
       /\ WeightGt(item.weight, possible_dominator.weight)

\* lines 253-254: the test against the last top survivor
IsAlternative(item, last_top_survivor) ==
    /\ item.value = last_top_survivor.value
    /\ WeightEq(item.weight, last_top_survivor.weight)

\* a removal test that keeps no fallback for the further picks
RemovesWithoutFallback(dominated, count) == dominated > 0

\* a removal test that is off by one
RemovesAboveCount(dominated, count) == dominated > count

\* line 266
Removes(dominated, count) == dominated + 1 > count

\* lines 240-286: one iteration of the inner loop, f.index < Len(f.items)
ScanItem(f) ==
    LET item == f.items[f.index + 1]
        found == BestLookup(f.best_for_modifier_gte, item.weight.modifier)
        possible_dominator == found.item
        last == f.last_top_survivor
        is_dominated == ~found.raised /\ IsDominated(item, possible_dominator)
        dominated1 == IF is_dominated
                      THEN Get(f.lesser_item_count, item.name, 0) + 1
                      ELSE 0
        count1 == IF is_dominated
                  THEN DictSet(f.lesser_item_count, item.name, dominated1)
                  ELSE f.lesser_item_count
        alternative == last # None /\ IsAlternative(item, last)
        dominated == IF alternative
                     THEN Get(count1, last.name, 0) + 1
                     ELSE dominated1
        count2 == IF alternative
                  THEN DictSet(count1, last.name, dominated)
                  ELSE count1
        marked == IF ~f.has_modifiers /\ has_modifier(item.weight)
                  THEN TRUE
                  ELSE f.has_modifiers
    IN IF dominated > 0
       THEN IF Removes(dominated, f.count)
            THEN [f EXCEPT !.lesser_item_count = count2,
                           !.items = DeleteAt(f.items, f.index),
                           !.heap = IF alternative
                                    THEN [f.heap EXCEPT ![last.alternatives] =
                                              @ \cup {item.name}]
                                    ELSE f.heap]
            ELSE [f EXCEPT !.lesser_item_count = count2,
                           !.has_modifiers = marked,
                           !.index = f.index + 1]
       ELSE [f EXCEPT !.lesser_item_count = count2,
                      !.last_top_survivor = item,
                      !.best_for_modifier_gte = BestAdd(f.best_for_modifier_gte, item),
                      !.has_modifiers = marked,
                      !.index = f.index + 1]

\* the end of a pass with the requested count taken as it is
EndPassUnclamped(f) ==
    LET picks == Combinations(f.items, f.count)
        base == Len(f.heap)
    IN IF f.count > 1
       THEN [f EXCEPT !.pc = "sort",
                      !.count = 1,
                      !.items = [i \in 1..Len(picks) |->
                                    SumItems(picks[i], ZERO, base + i)],
                      !.heap = f.heap \o [i \in 1..Len(picks) |->
                                    UnionAlternatives(picks[i], f.heap)]]
       ELSE [f EXCEPT !.pc = "done"]

\* an end of a pass that combines without setting count to 1
EndPassKeepsCount(f) ==
    LET possible_slots == IF Len(f.items) < f.count THEN Len(f.items) ELSE f.count
        picks == Combinations(f.items, possible_slots)
        base == Len(f.heap)
    IN IF possible_slots > 1
       THEN [f EXCEPT !.pc = "sort",
                      !.items = [i \in 1..Len(picks) |->
                                    SumItems(picks[i], ZERO, base + i)],
                      !.heap = f.heap \o [i \in 1..Len(picks) |->
                                    UnionAlternatives(picks[i], f.heap)]]
       ELSE [f EXCEPT !.pc = "done"]

\* lines 290-300: the end of a pass, f.index = Len(f.items)
EndPass(f) ==
    LET possible_slots == IF Len(f.items) < f.count THEN Len(f.items) ELSE f.count
        picks == IF f.allow_duplicates
                 THEN Product(f.items, possible_slots)
                 ELSE Combinations(f.items, possible_slots)
        base == Len(f.heap)
    IN IF possible_slots > 1
       THEN [f EXCEPT !.pc = "sort",
                      !.count = 1,
                      !.items = [i \in 1..Len(picks) |->
                                    SumItems(picks[i], ZERO, base + i)],
                      !.heap = f.heap \o [i \in 1..Len(picks) |->
                                    UnionAlternatives(picks[i], f.heap)]]
       ELSE [f EXCEPT !.pc = "done"]

Step(f) ==
    IF f.pc = "sort" THEN BeginPass(f)
    ELSE IF f.index < Len(f.items) THEN ScanItem(f)
    ELSE EndPass(f)

\* the whole constructor call
RECURSIVE Run(_)
Run(f) == IF f.pc = "done" THEN f ELSE Run(Step(f))

\* KnapsackItemSlot(items, count, allow_duplicates, sort): the object's
\* fields and the heap after the call
KnapsackItemSlot(items, count, allow_duplicates, sort, heap) ==
    LET f == Run(Frame(items, count, allow_duplicates, sort, heap))
    IN [items |-> f.items, has_modifiers |-> f.has_modifiers, heap |-> f.heap]

(***************************************************************************)
(* KnapsackItem.without_weight_modifiers, KnapsackSolution and             *)
(* KnapsackItemSlot.solution_by_weight_percentage.  max_weight_cost and    *)
(* extra_weight_cost are rationals.                                        *)
(***************************************************************************)
without_weight_modifiers(item, max_weight_cost, extra_weight_cost) ==
    IF extra_weight_cost = Zero /\ ~has_modifier(item.weight)
    THEN item
    ELSE KnapsackItem(
             KnapsackWeight(RDiv(RAdd(item.weight.cost, extra_weight_cost),
                                 RMul(max_weight_cost, item.weight.modifier)),
                            One),
             item.value, item.name, item.alternatives)

\* list(dict.keys()): the distinct weights in the order of first insertion
RECURSIVE FirstKeys(_, _)
FirstKeys(items, seen) ==
    IF items = <<>> THEN <<>>
    ELSE IF Head(items).weight \in seen
         THEN FirstKeys(Tail(items), seen)
         ELSE <<Head(items).weight>>
                  \o FirstKeys(Tail(items), seen \cup {Head(items).weight})

\* { item.weight: item for item in items }: a later item replaces an earlier
\* one of the same weight
RECURSIVE DictOf(_, _)
DictOf(items, d) ==
    IF items = <<>> THEN d
    ELSE DictOf(Tail(items), DictSet(d, Head(items).weight, Head(items)))

\* KnapsackSolution(items, sort): lines 198-204
KnapsackSolution(items, sort) ==
    LET ordered == IF sort THEN sorted(items) ELSE items
    IN [items |-> DictOf(ordered, <<>>),
        sorted_weights |-> FirstKeys(ordered, {})]

\* lines 309-318; also returns the local `items` and the heap, which the
\* constructor call of line 313 may change
solution_by_weight_percentage(slot, max_weight_cost, extra_weight_cost) ==
    IF ~slot.has_modifiers /\ extra_weight_cost = Zero
    THEN [solution |-> KnapsackSolution(slot.items, FALSE), items |-> slot.items,
          heap |-> slot.heap]
    ELSE LET without == KnapsackItemSlot(
                 [i \in 1..Len(slot.items) |->
                     without_weight_modifiers(slot.items[i], max_weight_cost,
                                              extra_weight_cost)],
                 1, FALSE, TRUE, slot.heap)
         IN [solution |-> KnapsackSolution(without.items, FALSE),
             items |-> without.items, heap |-> without.heap]

RECURSIVE bisect_right(_, _, _, _)
bisect_right(a, x, lo, hi) ==
    IF lo < hi
    THEN LET mid == (lo + hi) \div 2
         IN IF WeightLt(x, a[mid + 1])
            THEN bisect_right(a, x, lo, mid)
            ELSE bisect_right(a, x, mid + 1, hi)
    ELSE lo

\* lines 209-215.  The result is None or a list of items.
best_for_cost(sol, cost, count) ==
    LET weight == KnapsackWeight(cost, One)
        index == bisect_right(sol.sorted_weights, weight, 0,
                              Len(sol.sorted_weights)) - 1
        end == index + 1
        first == IF end - count > 0 THEN end - count ELSE 0
    IN IF index = -1
       THEN [is_none |-> TRUE, list |-> <<>>]
       ELSE [is_none |-> FALSE,
             list |-> Reverse([i \in 1..(end - first) |->
                          sol.items[sol.sorted_weights[first + i]]])]

(***************************************************************************)
(* The catalogue: the items a section may hold, indexed by label.  Items   *)
(* 1-3 are A, B and C of the end-to-end scenario, items 7-9 the rings R1,  *)
(* R2 and R3 of the two-pick scenario.                                     *)
(***************************************************************************)
Catalogue ==
    << [cost |-> <<5, 1>>, modifier |-> One,       value |-> 10],
       [cost |-> <<3, 1>>, modifier |-> One,       value |-> 7],
       [cost |-> <<3, 1>>, modifier |-> <<11, 10>>, value |-> 7],
       [cost |-> <<2, 1>>, modifier |-> One,       value |-> 3],
       [cost |-> <<2, 1>>, modifier |-> One,       value |-> 10],
       [cost |-> <<4, 1>>, modifier |-> <<2, 1>>,  value |-> 10],
       [cost |-> <<1, 1>>, modifier |-> One,       value |-> 5],
       [cost |-> <<1, 1>>, modifier |-> One,       value |-> 5],
       [cost |-> <<2, 1>>, modifier |-> One,       value |-> 3] >>

\* the armour labels A..F
Labels == {n \in 1..Len(Catalogue) : n < 7}

\* the ring labels R1..R3
RingLabels == {n \in 1..Len(Catalogue) : n >= 7}

\* a section: its item names in file order, without repetition
Sections(max) ==
    UNION {{s \in [1..n -> Labels] : \A i, j \in 1..n : i # j => s[i] # s[j]}
           : n \in 0..max}

\* lines 382-390: the KnapsackItems of a section, each with its own empty
\* alternatives set, allocated after the first `base` sets of the heap
SectionItems(names, base) ==
    [i \in 1..Len(names) |->
        KnapsackItem(KnapsackWeight(Catalogue[names[i]].cost,
                                    Catalogue[names[i]].modifier),
                     Catalogue[names[i]].value, <<names[i]>>, base + i)]

SectionHeap(names) == [i \in 1..Len(names) |-> {}]

Counts == 1..MaxCount

MaxWeightCosts == {<<m, 1>> : m \in 1..MaxCapacity}

ExtraWeightCosts == {<<e, 1>> : e \in 0..MaxExtra}

Budgets == {<<b, 1>> : b \in 0..MaxBudget}

(***************************************************************************)
(* KnapsackItemSlot.__add__ (lines 320-327) and one round of               *)
(* combine_in_pairs (lines 336-341).  A slot object is its item list and   *)
(* its _has_modifiers flag; the heap is threaded through the calls.        *)
(***************************************************************************)
SlotObject(r) == [items |-> r.items, has_modifiers |-> r.has_modifiers]

\* itertools.product(self.items, other.items), first_item + second_item
PairItems(a, b, base) ==
    [k \in 1..(Len(a) * Len(b)) |->
        ItemAdd(a[((k - 1) \div Len(b)) + 1], b[((k - 1) % Len(b)) + 1],
                base + k)]

PairHeap(a, b, heap) ==
    heap \o [k \in 1..(Len(a) * Len(b)) |->
                heap[a[((k - 1) \div Len(b)) + 1].alternatives]
                    \cup heap[b[((k - 1) % Len(b)) + 1].alternatives]]

SlotAdd(first_slot, second_slot, heap) ==
    KnapsackItemSlot(PairItems(first_slot.items, second_slot.items, Len(heap)),
                     1, FALSE, TRUE,
                     PairHeap(first_slot.items, second_slot.items, heap))

\* a round that loses the slot left without a pair
RECURSIVE CombineRoundPairsOnly(_, _, _)
CombineRoundPairsOnly(slots, done, heap) ==
    IF Len(slots) < 2
    THEN [slots |-> done, heap |-> heap]
    ELSE LET r == SlotAdd(slots[1], slots[2], heap)
         IN CombineRoundPairsOnly(Tail(Tail(slots)), Append(done, SlotObject(r)),
                                  r.heap)

\* slots[:len(slots) // 2 * 2] = [first + second for each adjacent pair]
RECURSIVE CombineRound(_, _, _)
CombineRound(slots, done, heap) ==
    IF Len(slots) < 2
    THEN [slots |-> done \o slots, heap |-> heap]
    ELSE LET r == SlotAdd(slots[1], slots[2], heap)
         IN CombineRound(Tail(Tail(slots)), Append(done, SlotObject(r)), r.heap)

(***************************************************************************)
(* The script (lines 410-430).                                             *)
(***************************************************************************)
VARIABLES
    pc,                 \* "construct", "combine", "combined", "solved",
                        \* "queried"; "test" in the inline test;
                        \* "operands", "added", "compared" in the operator runs;
                        \* "optimizer", "looked up" in the optimizer.py runs
    sections,           \* the input: each section's names and pick count
    frame,              \* the running KnapsackItemSlot constructor
    slots,              \* the list combine_in_pairs works on
    combined_slot,      \* line 420
    max_weight_cost,    \* arguments of line 424
    extra_weight_cost,
    reduced,            \* the local `items` of solution_by_weight_percentage
    solution,           \* line 424
    heap,               \* the alternatives sets after the last call
    query,              \* arguments of line 428
    top_ten,            \* line 428
    best_for_modifier_gte,  \* the object of the inline test (line 437)
    added,              \* the items added to it so far
    operands,           \* the operands of an operator call
    result,             \* what the operator calls returned
    collection,         \* the EquipmentDatabase, EquipmentCollection or Reader
    database            \* the Database of optimizer.py

vars == <<pc, sections, frame, slots, combined_slot, max_weight_cost,
          extra_weight_cost, reduced, solution, heap, query, top_ten,
          best_for_modifier_gte, added, operands, result, collection,
          database>>

\* the state of the ingestion of equipment_optimizer
ingest_vars == <<collection, database>>

Unset ==
    /\ combined_slot = None
    /\ max_weight_cost = None
    /\ extra_weight_cost = None
    /\ reduced = None
    /\ solution = None
    /\ query = None
    /\ top_ten = None
    /\ operands = None
    /\ result = None
    /\ collection = None
    /\ database = None

Init ==
    /\ pc = "construct"
    /\ sections \in [1..1 -> [names : Sections(MaxItems), count : Counts]]
    /\ frame = Frame(SectionItems(sections[1].names, 0), sections[1].count,
                     FALSE, TRUE, SectionHeap(sections[1].names))
    /\ slots = <<>>
    /\ heap = SectionHeap(sections[1].names)
    /\ best_for_modifier_gte = EmptyBest
    /\ added = <<>>
    /\ Unset

\* lines 229-238
SortPass ==
    /\ pc = "construct"
    /\ frame.pc = "sort"
    /\ frame' = BeginPass(frame)
    /\ UNCHANGED <<pc, sections, slots, combined_slot, max_weight_cost,
                   extra_weight_cost, reduced, solution, heap, query, top_ten,
                   best_for_modifier_gte, added,
                   operands, result,
                   ingest_vars>>

\* lines 240-286
Scan ==
    /\ pc = "construct"
    /\ frame.pc = "scan"
    /\ frame.index < Len(frame.items)
    /\ frame' = ScanItem(frame)
    /\ UNCHANGED <<pc, sections, slots, combined_slot, max_weight_cost,
                   extra_weight_cost, reduced, solution, heap, query, top_ten,
                   best_for_modifier_gte, added,
                   operands, result,
                   ingest_vars>>

\* lines 288-300
FinishPass ==
    /\ pc = "construct"
    /\ frame.pc = "scan"
    /\ frame.index >= Len(frame.items)
    /\ frame' = EndPass(frame)
    /\ UNCHANGED <<pc, sections, slots, combined_slot, max_weight_cost,
                   extra_weight_cost, reduced, solution, heap, query, top_ten,
                   best_for_modifier_gte, added,
                   operands, result,
                   ingest_vars>>

\* line 302: the constructor returns, the list of lines 380-394 is complete
Construct ==
    /\ pc = "construct"
    /\ frame.pc = "done"
    /\ slots' = <<SlotObject(frame)>>
    /\ heap' = frame.heap
    /\ pc' = "combine"
    /\ UNCHANGED <<sections, frame, combined_slot, max_weight_cost,
                   extra_weight_cost, reduced, solution, query, top_ten,
                   best_for_modifier_gte, added,
                   operands, result,
                   ingest_vars>>

\* lines 336-341: one round of the loop of combine_in_pairs
Round ==
    /\ pc = "combine"
    /\ Len(slots) > 1
    /\ LET r == CombineRound(slots, <<>>, heap)
       IN /\ slots' = r.slots
          /\ heap' = r.heap
    /\ UNCHANGED <<pc, sections, frame, combined_slot, max_weight_cost,
                   extra_weight_cost, reduced, solution, query, top_ten,
                   best_for_modifier_gte, added,
                   operands, result,
                   ingest_vars>>

\* line 342
CombineReturn ==
    /\ pc = "combine"
    /\ Len(slots) = 1
    /\ combined_slot' = slots[1]
    /\ pc' = "combined"
    /\ UNCHANGED <<sections, frame, slots, max_weight_cost, extra_weight_cost,
                   reduced, solution, heap, query, top_ten,
                   best_for_modifier_gte, added,
                   operands, result,
                   ingest_vars>>

\* line 424
Solve ==
    /\ pc = "combined"
    /\ \E m \in MaxWeightCosts, e \in ExtraWeightCosts :
          LET r == solution_by_weight_percentage(
                       [items |-> combined_slot.items,
                        has_modifiers |-> combined_slot.has_modifiers,
                        heap |-> heap], m, e)
          IN /\ max_weight_cost' = m
             /\ extra_weight_cost' = e
             /\ reduced' = r.items
             /\ solution' = r.solution
             /\ heap' = r.heap
    /\ pc' = "solved"
    /\ UNCHANGED <<sections, frame, slots, combined_slot, query, top_ten,
                   best_for_modifier_gte, added,
                   operands, result,
                   ingest_vars>>

\* line 428
Query ==
    /\ pc = "solved"
    /\ \E cost \in Budgets, count \in 0..MaxQueryCount :
          /\ query' = [cost |-> cost, count |-> count]
          /\ top_ten' = best_for_cost(solution, cost, count)
    /\ pc' = "queried"
    /\ UNCHANGED <<sections, frame, slots, combined_slot, max_weight_cost,
                   extra_weight_cost, reduced, solution, heap,
                   best_for_modifier_gte, added,
                   operands, result,
                   ingest_vars>>

Next ==
    SortPass \/ Scan \/ FinishPass \/ Construct \/ CombineReturn \/ Solve \/ Query

Spec == Init /\ [][Next]_vars

\* The constructor is sequential code: the statement it stands at runs.
\* Weak fairness of its steps, written out with the condition under which
\* one of SortPass, Scan and FinishPass is enabled.
Constructing == pc = "construct" /\ frame.pc # "done"

ConstructorIsFair ==
    []<>(~Constructing) \/ []<><<SortPass \/ Scan \/ FinishPass>>_vars

\* one constructor call, up to its return
NextReduce == SortPass \/ Scan \/ FinishPass \/ Construct

SpecReduce ==
    /\ Init
    /\ [][NextReduce]_vars
    /\ ConstructorIsFair
    /\ WF_vars(Construct)

(***************************************************************************)
(* The script run on a section of rings ('Fingers'), in any file order.    *)
(***************************************************************************)
RingSections ==
    {s \in UNION {[1..n -> RingLabels] : n \in 0..Cardinality(RingLabels)} :
        \A i, j \in 1..Len(s) : i # j => s[i] # s[j]}

InitRings ==
    /\ pc = "construct"
    /\ sections \in [1..1 -> [names : RingSections, count : Counts]]
    /\ frame = Frame(SectionItems(sections[1].names, 0), sections[1].count,
                     FALSE, TRUE, SectionHeap(sections[1].names))
    /\ slots = <<>>
    /\ heap = SectionHeap(sections[1].names)
    /\ best_for_modifier_gte = EmptyBest
    /\ added = <<>>
    /\ Unset

SpecRings == InitRings /\ [][Next]_vars

(***************************************************************************)
(* The inline test (lines 436-450): a BestKnapsackItemForModifierGTE       *)
(* receives items of any modifier and value, in any order.                 *)
(***************************************************************************)
TestNumbers == 1..MaxTestNumber

InitTest ==
    /\ pc = "test"
    /\ sections = <<>>
    /\ frame = None
    /\ slots = <<>>
    /\ heap = <<>>
    /\ best_for_modifier_gte = EmptyBest
    /\ added = <<>>
    /\ Unset

\* lines 438-446: best_for_modifier_gte.add(KnapsackItem(...))
TestAdd ==
    /\ pc = "test"
    /\ Len(added) < MaxAdds
    /\ \E m \in TestNumbers, v \in TestNumbers :
          LET item == KnapsackItem(KnapsackWeight(Zero, <<m, 1>>), v,
                                   <<Len(added) + 1>>, 0)
          IN /\ best_for_modifier_gte' = BestAdd(best_for_modifier_gte, item)
             /\ added' = Append(added, item)
    /\ UNCHANGED <<pc, sections, frame, slots, combined_slot, max_weight_cost,
                   extra_weight_cost, reduced, solution, heap, query, top_ten,
                   operands, result,
                   ingest_vars>>

NextTest == TestAdd

SpecTest == InitTest /\ [][NextTest]_vars

(***************************************************************************)
(* to_knapsack_item_slot (lines 379-394) for several sections: the slots   *)
(* are constructed one after the other, then combine_in_pairs runs.        *)
(***************************************************************************)
\* the labels that sections of the combination runs draw from (no modifier
\* other than 1 and 2: their float products are exact)
CombineLabels == {1, 2, 6}

CombineSections ==
    {s \in Sections(2) : Len(s) > 0 /\ \A i \in 1..Len(s) : s[i] \in CombineLabels}

\* lines 380-394: the list of constructed slots
RECURSIVE BuildSlots(_, _, _)
BuildSlots(secs, done, h) ==
    IF secs = <<>> THEN [slots |-> done, heap |-> h]
    ELSE LET r == KnapsackItemSlot(SectionItems(Head(secs).names, Len(h)),
                                   Head(secs).count, FALSE, TRUE,
                                   h \o SectionHeap(Head(secs).names))
         IN BuildSlots(Tail(secs), Append(done, SlotObject(r)), r.heap)

InitCombine ==
    /\ pc = "combine"
    /\ \E n \in 1..MaxSlots :
          sections \in [1..n -> [names : CombineSections, count : {1}]]
    /\ frame = None
    /\ slots = BuildSlots(sections, <<>>, <<>>).slots
    /\ heap = BuildSlots(sections, <<>>, <<>>).heap
    /\ best_for_modifier_gte = EmptyBest
    /\ added = <<>>
    /\ Unset

NextCombine == Round \/ CombineReturn

SpecCombine == InitCombine /\ [][NextCombine]_vars

\* combine_in_pairs on 1..MaxSlots slots of one or two items each.  It is a
\* sequential loop: a round that can run does run.
PairingSections == {<<1>>, <<2>>, <<2, 6>>}

InitPairing ==
    /\ pc = "combine"
    /\ \E n \in 1..MaxSlots :
          sections \in [1..n -> [names : PairingSections, count : {1}]]
    /\ frame = None
    /\ slots = BuildSlots(sections, <<>>, <<>>).slots
    /\ heap = BuildSlots(sections, <<>>, <<>>).heap
    /\ best_for_modifier_gte = EmptyBest
    /\ added = <<>>
    /\ Unset

\* the `while len(slots) > 1` loop (line 334) runs its body whenever its
\* condition holds: weak fairness of Round, written out with the condition
\* under which Round is enabled
RoundIsFair ==
    []<>(~(pc = "combine" /\ Len(slots) > 1)) \/ []<><<Round>>_vars

SpecPairing ==
    /\ InitPairing
    /\ [][NextCombine]_vars
    /\ RoundIsFair
    /\ WF_vars(CombineReturn)

(***************************************************************************)
(* Float arithmetic with rounding.  A float holds MantissaBits significant *)
(* bits; the exact result of + and * is rounded to the nearest float, a    *)
(* tie to the one with the even mantissa (IEEE 754 round-half-to-even, the *)
(* arithmetic of Python's float).  The pipeline runs above take the exact  *)
(* results; the operator runs below take the rounded ones.                 *)
(***************************************************************************)
RECURSIVE Pow2(_)
Pow2(k) == IF k = 0 THEN 1 ELSE 2 * Pow2(k - 1)

\* q / 2^e
Scaled(q, e) ==
    IF e >= 0 THEN Rat(q[1], q[2] * Pow2(e)) ELSE Rat(q[1] * Pow2(-e), q[2])

\* the exponent e of q > 0: 2^(MantissaBits - 1) <= q / 2^e < 2^MantissaBits
RECURSIVE Exponent(_, _)
Exponent(q, e) ==
    IF RLe(<<Pow2(MantissaBits), 1>>, Scaled(q, e)) THEN Exponent(q, e + 1)
    ELSE IF RLt(Scaled(q, e), <<Pow2(MantissaBits - 1), 1>>) THEN Exponent(q, e - 1)
    ELSE e

RoundFloat(q) ==
    IF q[1] = 0 THEN Zero
    ELSE LET e == Exponent(q, 0)
             s == Scaled(q, e)
             m == s[1] \div s[2]
             rem == s[1] - m * s[2]
             up == 2 * rem > s[2] \/ (2 * rem = s[2] /\ m % 2 = 1)
         IN Scaled(<<IF up THEN m + 1 ELSE m, 1>>, -e)

FloatAdd(a, b) == RoundFloat(RAdd(a, b))

FloatMul(a, b) == RoundFloat(RMul(a, b))

\* a combination that forgets the modifier of the second operand
FloatWeightAddOneModifier(a, b) ==
    KnapsackWeight(FloatAdd(a.cost, b.cost), a.modifier)

\* KnapsackWeight.__add__ (lines 57-62) on floats
FloatWeightAdd(a, b) ==
    KnapsackWeight(FloatAdd(a.cost, b.cost), FloatMul(a.modifier, b.modifier))

\* KnapsackItem.__add__ (lines 102-111) on floats; the alternatives are not
\* followed here
FloatItemAdd(a, b) ==
    KnapsackItem(FloatWeightAdd(a.weight, b.weight), a.value + b.value,
                 a.name \o b.name, 0)

(***************************************************************************)
(* Operator runs: three items a, b, c of any cost, modifier and value are  *)
(* combined with + in both groupings and both orders, or their weights are *)
(* compared.                                                               *)
(***************************************************************************)
OperandWeights ==
    {KnapsackWeight(<<c, 1>>, Rat(4 + q, 4)) :
        c \in 1..MaxOperandCost, q \in 0..MaxOperandSteps}

InitArith ==
    /\ pc = "operands"
    /\ sections = <<>>
    /\ frame = None
    /\ slots = <<>>
    /\ heap = <<>>
    /\ best_for_modifier_gte = EmptyBest
    /\ added = <<>>
    /\ combined_slot = None
    /\ max_weight_cost = None
    /\ extra_weight_cost = None
    /\ reduced = None
    /\ solution = None
    /\ query = None
    /\ top_ten = None
    /\ \E w \in [1..3 -> OperandWeights], v \in [1..3 -> 1..MaxOperandValue] :
          operands = [i \in 1..3 |-> KnapsackItem(w[i], v[i], <<i>>, 0)]
    /\ result = None
    /\ collection = None
    /\ database = None

\* a + b, b + a, (a + b) + c and a + (b + c)
Add ==
    /\ pc = "operands"
    /\ result' =
          [ab |-> FloatItemAdd(operands[1], operands[2]),
           ba |-> FloatItemAdd(operands[2], operands[1]),
           left |-> FloatItemAdd(FloatItemAdd(operands[1], operands[2]),
                                 operands[3]),
           right |-> FloatItemAdd(operands[1],
                                  FloatItemAdd(operands[2], operands[3]))]
    /\ pc' = "added"
    /\ UNCHANGED <<sections, frame, slots, combined_slot, max_weight_cost,
                   extra_weight_cost, reduced, solution, heap, query, top_ten,
                   best_for_modifier_gte, added, operands,
                   ingest_vars>>

\* the comparisons of the weights of a, b and c
Compare ==
    /\ pc = "operands"
    /\ result' =
          [lt |-> [i \in 1..3 |-> [j \in 1..3 |->
                      WeightLt(operands[i].weight, operands[j].weight)]],
           eq |-> [i \in 1..3 |-> [j \in 1..3 |->
                      WeightEq(operands[i].weight, operands[j].weight)]]]
    /\ pc' = "compared"
    /\ UNCHANGED <<sections, frame, slots, combined_slot, max_weight_cost,
                   extra_weight_cost, reduced, solution, heap, query, top_ten,
                   best_for_modifier_gte, added, operands,
                   ingest_vars>>

\* operands[i] < operands[j] for KnapsackItems (lines 117-122)
CompareItems ==
    /\ pc = "operands"
    /\ result' = [i \in 1..3 |-> [j \in 1..3 |->
                      ItemLt(operands[i], operands[j])]]
    /\ pc' = "items compared"
    /\ UNCHANGED <<sections, frame, slots, combined_slot, max_weight_cost,
                   extra_weight_cost, reduced, solution, heap, query, top_ten,
                   best_for_modifier_gte, added, operands,
                   ingest_vars>>

NextItemOrder == CompareItems

SpecItemOrder == InitArith /\ [][NextItemOrder]_vars

NextArith == Add \/ Compare

SpecArith == InitArith /\ [][NextArith]_vars

(***************************************************************************)
(* equipment_optimizer/optimizer.py:                                       *)
(* BestSolutionWithWeightMultiplierAtLeast (lines 137-216).  The object is *)
(* held in the variable best_for_modifier_gte, with the fields             *)
(* _sorted_weight_multipliers and _best_at_least, the solutions passed to  *)
(* add in `added`.  Indices are 0-based as in the code.                    *)
(***************************************************************************)
\* lines 20-23
Metrics(weight, weight_multiplier, value) ==
    [weight |-> weight, weight_multiplier |-> weight_multiplier,
     value |-> value]

\* lines 51-54, with one Piece of the given name
Solution(name, metrics) == [pieces |-> <<name>>, metrics |-> metrics]

\* lines 155-160
clear ==
    [sorted_weight_multipliers |-> <<>>, best_at_least |-> <<>>]

\* lines 162-165
weight_multiplier_index(self, weight_multiplier) ==
    bisect_left(self.sorted_weight_multipliers, weight_multiplier, 0,
                Len(self.sorted_weight_multipliers))

\* lines 212-216
lookup(self, weight_multiplier) ==
    LET index == weight_multiplier_index(self, weight_multiplier)
    IN IF index < Len(self.sorted_weight_multipliers)
       THEN self.best_at_least[self.sorted_weight_multipliers[index + 1]]
       ELSE None

\* lines 197-210: walk backward and update any lesser values to be greater
RECURSIVE WalkBackwardSolutions(_, _, _, _)
WalkBackwardSolutions(multipliers, best_at_least, index, sol) ==
    LET prior == index - 1
    IN IF prior < 0 THEN best_at_least
       ELSE IF best_at_least[multipliers[prior + 1]].metrics.value
                   >= sol.metrics.value
            THEN best_at_least
            ELSE WalkBackwardSolutions(
                     multipliers,
                     DictSet(best_at_least, multipliers[prior + 1], sol),
                     prior, sol)

\* an add that leaves the entries of the lesser multipliers as they are
AddWithoutWalk(self, sol) ==
    LET weight_multiplier == sol.metrics.weight_multiplier
        index == weight_multiplier_index(self, weight_multiplier)
        present == /\ index < Len(self.sorted_weight_multipliers)
                   /\ self.sorted_weight_multipliers[index + 1]
                          = weight_multiplier
    IN IF present
       THEN IF self.best_at_least[weight_multiplier].metrics.value
                   < sol.metrics.value
            THEN [self EXCEPT !.best_at_least =
                      DictSet(@, weight_multiplier, sol)]
            ELSE self
       ELSE [sorted_weight_multipliers |->
                 InsertAt(self.sorted_weight_multipliers, index,
                          weight_multiplier),
             best_at_least |->
                 DictSet(self.best_at_least, weight_multiplier, sol)]

\* lines 167-210
add(self, sol) ==
    LET weight_multiplier == sol.metrics.weight_multiplier
        index == weight_multiplier_index(self, weight_multiplier)
        present == /\ index < Len(self.sorted_weight_multipliers)
                   /\ self.sorted_weight_multipliers[index + 1]
                          = weight_multiplier
    IN IF present
          /\ ~(self.best_at_least[weight_multiplier].metrics.value
                   < sol.metrics.value)
       THEN self    \* line 182: nothing changed
       ELSE LET multipliers ==
                    IF present THEN self.sorted_weight_multipliers
                    ELSE InsertAt(self.sorted_weight_multipliers, index,
                                  weight_multiplier)
                best1 == DictSet(self.best_at_least, weight_multiplier,
                                 sol)
                index_next == index + 1
                best2 ==
                    IF index_next < Len(multipliers)
                       /\ best1[multipliers[index_next + 1]].metrics.value
                              >= sol.metrics.value
                    THEN DictSet(best1, weight_multiplier,
                                 best1[multipliers[index_next + 1]])
                    ELSE best1
            IN [sorted_weight_multipliers |-> multipliers,
                best_at_least |->
                    WalkBackwardSolutions(multipliers, best2, index, sol)]

\* the multipliers looked up: the added ones, the values between them, and
\* one below and one above all of them
LookupMultipliers == {Rat(k, 2) : k \in 1..(2 * MaxMultiplier + 1)}

InitOptimizer ==
    /\ pc = "optimizer"
    /\ sections = <<>>
    /\ frame = None
    /\ slots = <<>>
    /\ heap = <<>>
    /\ best_for_modifier_gte = clear
    /\ added = <<>>
    /\ Unset

\* best.add(solution)
OptimizerAdd ==
    /\ pc = "optimizer"
    /\ Len(added) < MaxSolutions
    /\ \E m \in 1..MaxMultiplier, v \in 1..MaxSolutionValue :
          LET s == Solution(Len(added) + 1, Metrics(Zero, Rat(m, 1), v))
          IN /\ best_for_modifier_gte' = add(best_for_modifier_gte, s)
             /\ added' = Append(added, s)
    /\ UNCHANGED <<pc, sections, frame, slots, combined_slot, max_weight_cost,
                   extra_weight_cost, reduced, solution, heap, query, top_ten,
                   operands, result,
                   ingest_vars>>

\* best.lookup(weight_multiplier)
OptimizerLookup ==
    /\ pc = "optimizer"
    /\ \E w \in LookupMultipliers :
          /\ operands' = w
          /\ result' = lookup(best_for_modifier_gte, w)
    /\ pc' = "looked up"
    /\ UNCHANGED <<sections, frame, slots, combined_slot, max_weight_cost,
                   extra_weight_cost, reduced, solution, heap, query, top_ten,
                   best_for_modifier_gte, added,
                   ingest_vars>>

NextOptimizer == OptimizerAdd \/ OptimizerLookup

SpecOptimizer == InitOptimizer /\ [][NextOptimizer]_vars

(***************************************************************************)
(* Lookups in both tables: the scan of KnapsackItemSlot.__init__ (lines    *)
(* 241-244), lookup_modifier on a BestKnapsackItemForModifierGTE filled by *)
(* the inline test, and lookup of optimizer.py.                            *)
(***************************************************************************)
\* lines 190-191: best_for_modifier_gte.lookup_modifier(modifier)
TestLookup ==
    /\ pc = "test"
    /\ \E m \in 1..(MaxTestNumber + 1) :
          /\ operands' = <<m, 1>>
          /\ result' = BestLookup(best_for_modifier_gte, <<m, 1>>)
    /\ pc' = "test looked up"
    /\ UNCHANGED <<sections, frame, slots, combined_slot, max_weight_cost,
                   extra_weight_cost, reduced, solution, heap, query, top_ten,
                   best_for_modifier_gte, added,
                   ingest_vars>>

InitLookup == Init \/ InitTest \/ InitOptimizer

NextLookup == Next \/ TestAdd \/ TestLookup \/ NextOptimizer

SpecLookup == InitLookup /\ [][NextLookup]_vars

(***************************************************************************)
(* optimizer.py: Metrics.__add__, Solution.__add__ and Extents.__add__.    *)
(* Weights and multipliers are exact rationals.                            *)
(***************************************************************************)
\* lines 37-42
MetricsAdd(self, other) ==
    Metrics(RAdd(self.weight, other.weight),
            RAdd(self.weight_multiplier, other.weight_multiplier),
            self.value + other.value)

\* lines 56-61
SolutionAdd(self, other) ==
    [pieces |-> self.pieces \o other.pieces,
     metrics |-> MetricsAdd(self.metrics, other.metrics)]

\* lines 112-116
Extents(minimum_weight, maximum_weight_multiplier) ==
    [minimum_weight |-> minimum_weight,
     maximum_weight_multiplier |-> maximum_weight_multiplier]

\* lines 118-125
ExtentsAdd(self, other) ==
    Extents(RAdd(self.minimum_weight, other.minimum_weight),
            RMul(self.maximum_weight_multiplier,
                 other.maximum_weight_multiplier))

\* the metrics a solution can have
SolutionMetrics ==
    {Metrics(Rat(w, 1), Rat(m, 1), v) : w \in 0..MaxSolutionWeight,
                                        m \in 1..MaxMultiplier,
                                        v \in 1..MaxSolutionValue}

InitSolutions ==
    /\ pc = "solutions"
    /\ sections = <<>>
    /\ frame = None
    /\ slots = <<>>
    /\ heap = <<>>
    /\ best_for_modifier_gte = None
    /\ added = <<>>
    /\ combined_slot = None
    /\ max_weight_cost = None
    /\ extra_weight_cost = None
    /\ reduced = None
    /\ solution = None
    /\ query = None
    /\ top_ten = None
    /\ \E a \in SolutionMetrics, b \in SolutionMetrics :
          operands = <<Solution(1, a), Solution(2, b)>>
    /\ result = None
    /\ collection = None
    /\ database = None

\* operands[0] + operands[1]
AddSolutions ==
    /\ pc = "solutions"
    /\ result' = SolutionAdd(operands[1], operands[2])
    /\ pc' = "solutions added"
    /\ UNCHANGED <<sections, frame, slots, combined_slot, max_weight_cost,
                   extra_weight_cost, reduced, solution, heap, query, top_ten,
                   best_for_modifier_gte, added, operands,
                   ingest_vars>>

NextSolutions == AddSolutions

SpecSolutions == InitSolutions /\ [][NextSolutions]_vars

(***************************************************************************)
(* Ingestion: EquipmentDatabase.import_csv_row (equipment.py),             *)
(* EquipmentCollection.process_row (game_data/__init__.py) and Reader.rows *)
(* (game_data.py).  A row is a dict: a function from the fields it has to  *)
(* their values.  The values of a csv row are strings; a Reader row holds  *)
(* strings and floats, modelled as [str |-> s] and [float |-> x].  A call *)
(* leaves in `result` "returned" or the name of the exception it raised.   *)
(***************************************************************************)
Fields == {"name", "position", "stat"}

\* dicts with keys among `keys` and the value of key k in values[k]
Dicts(keys, values) ==
    UNION {[present -> UNION {values[k] : k \in present}]
           : present \in SUBSET keys}

CsvValues ==
    [name |-> {"", "x", "y"}, position |-> {"", "head"},
     stat |-> {"0", "1", "heavy"}]

CsvRows == {row \in Dicts(Fields, CsvValues) :
               \A k \in DOMAIN row : row[k] \in CsvValues[k]}

\* dict.get(key, default)
RowGet(row, key, default) == IF key \in DOMAIN row THEN row[key] ELSE default

\* float(value) of a csv string: the number, or ValueError
ParseFloat(value) ==
    IF value = "0" THEN [raised |-> "returned", float |-> 0]
    ELSE IF value = "1" THEN [raised |-> "returned", float |-> 1]
    ELSE [raised |-> "ValueError", float |-> 0]

\* equipment.py lines 60-64, game_data/__init__.py lines 60-65
is_csv_row_excluded(self, row) ==
    \E attribute \in DOMAIN self.exclude :
        RowGet(row, attribute, "") \in self.exclude[attribute]

\* an import that stores the piece before it looks at the name
import_csv_row_unchecked(self, row) ==
    IF is_csv_row_excluded(self, row)
    THEN [self |-> self, raised |-> "returned"]
    ELSE LET name == RowGet(row, "name", "")
         IN [self |-> [self EXCEPT !.pieces =
                          DictSet(@, name, [attributes |-> <<>>,
                                            statistics |-> <<>>])],
             raised |-> IF name = "" THEN "ValueError" ELSE "returned"]

\* equipment.py lines 66-90: the object after the call and what it raised
import_csv_row(self, row) ==
    IF is_csv_row_excluded(self, row)
    THEN [self |-> self, raised |-> "returned"]
    ELSE LET truthy == {key \in DOMAIN row : row[key] # ""}
             name == IF "name" \in truthy THEN row["name"] ELSE ""
             kept == {key \in truthy \ {"name"} :
                         self.fields = None \/ key \in self.fields.set}
             numeric == {key \in kept : ParseFloat(row[key]).raised = "returned"}
             statistics ==
                 [key \in {k \in numeric : ParseFloat(row[k]).float # 0}
                     |-> ParseFloat(row[key]).float]
             attributes == [key \in kept \ numeric |-> row[key]]
         IN IF name = ""
            THEN [self |-> self, raised |-> "ValueError"]
            ELSE [self |-> [self EXCEPT !.pieces =
                               DictSet(@, name,
                                       [attributes |-> attributes,
                                        statistics |-> statistics])],
                  raised |-> "returned"]

\* game_data/__init__.py lines 67-91: the same statements as import_csv_row
process_row(self, row) == import_csv_row(self, row)

\* the values of a Reader row
Str(s) == [str |-> s]

Float(x) == [float |-> x]

IsStr(value) == DOMAIN value = {"str"}

IsFloat(value) == DOMAIN value = {"float"}

\* `if value:` for a str or a float
Truthy(value) == IF IsStr(value) THEN value.str # "" ELSE value.float # 0

ReaderValues ==
    [name |-> {Str(""), Str("x"), Float(1)},
     position |-> {Str(""), Str("head")},
     stat |-> {Float(0), Float(1)}]

ReaderRows == {row \in Dicts(Fields, ReaderValues) :
                  \A k \in DOMAIN row : row[k] \in ReaderValues[k]}

\* game_data.py lines 65-82, for one of the two exclusion dicts: "excluded",
\* "TypeError" or "next"
ExcludedBy(exclude_field_values, row, numeric) ==
    IF \E field \in DOMAIN exclude_field_values :
           \/ field \notin DOMAIN row
           \/ IF numeric THEN ~IsFloat(row[field]) ELSE ~IsStr(row[field])
    THEN "TypeError"
    ELSE IF \E field \in DOMAIN exclude_field_values :
                row[field] \in exclude_field_values[field]
         THEN "excluded"
         ELSE "next"

\* game_data.py lines 65-82.  Each exclusion dict has at most one field, so
\* the order in which a dict's fields are visited does not matter.
is_row_excluded(self, row) ==
    LET numeric == ExcludedBy(self.exclude_numeric_field_values, row, TRUE)
        textual == ExcludedBy(self.exclude_textual_field_values, row, FALSE)
    IN IF numeric # "next" THEN numeric
       ELSE IF textual # "next" THEN textual
       ELSE "not excluded"

\* game_data.py lines 84-119, for the next row of the iterable: the Reader's
\* consumer has the entries yielded so far
rows(self, row) ==
    LET excluded == is_row_excluded(self, row)
        fields == IF self.fields # None THEN self.fields.set ELSE DOMAIN row
        truthy == {field \in fields \cap DOMAIN row : Truthy(row[field])}
        name == IF "name" \in truthy /\ IsStr(row["name"])
                THEN row["name"].str ELSE ""
        entry == [name |-> name,
                  data |-> [numeric_fields |->
                                [f \in {g \in truthy \ {"name"} : IsFloat(row[g])}
                                    |-> row[f].float],
                            textual_fields |->
                                [f \in {g \in truthy \ {"name"} : IsStr(row[g])}
                                    |-> row[f].str]]]
    IN IF excluded = "TypeError" THEN [self |-> self, raised |-> "TypeError"]
       ELSE IF excluded = "excluded" THEN [self |-> self, raised |-> "returned"]
       ELSE IF "name" \in truthy /\ ~IsStr(row["name"])
            THEN [self |-> self, raised |-> "TypeError"]
       ELSE IF name = "" THEN [self |-> self, raised |-> "ValueError"]
       ELSE [self |-> [self EXCEPT !.entries = Append(@, entry)],
             raised |-> "returned"]

\* the constructor arguments tried; `fields` is None or [set |-> a set]
FieldsArguments == {None, [set |-> {"stat"}], [set |-> {"position", "stat"}]}

\* equipment.py lines 43-47, game_data/__init__.py lines 54-57, game_data.py
\* lines 58-61: self._fields
StoredFields(fields, always) ==
    IF fields = None THEN None ELSE [set |-> fields.set \cup always]

ExcludeArguments == {<<>>, [position |-> {"head"}], [position |-> {""}]}

NumericExcludeArguments == {<<>>, [stat |-> {1}]}

TextualExcludeArguments == {<<>>, [position |-> {Str("head")}]}

InitIngest ==
    /\ pc = "ingest"
    /\ sections = <<>>
    /\ frame = None
    /\ slots = <<>>
    /\ heap = <<>>
    /\ best_for_modifier_gte = None
    /\ added = <<>>
    /\ combined_slot = None
    /\ max_weight_cost = None
    /\ extra_weight_cost = None
    /\ reduced = None
    /\ solution = None
    /\ query = None
    /\ top_ten = None
    /\ operands = None
    /\ result = "no call"
    /\ database = None
    /\ \/ \E class \in {"EquipmentDatabase", "EquipmentCollection"},
             fields \in FieldsArguments, exclude \in ExcludeArguments :
             collection = [class |-> class,
                           fields |-> StoredFields(fields,
                               IF class = "EquipmentDatabase"
                               THEN {"name", "position"} ELSE {"name"}),
                           exclude |-> exclude, pieces |-> <<>>]
       \/ \E fields \in FieldsArguments,
             numeric \in NumericExcludeArguments,
             textual \in TextualExcludeArguments :
             collection = [class |-> "Reader",
                           fields |-> StoredFields(fields, {"name"}),
                           exclude_numeric_field_values |->
                               [f \in DOMAIN numeric |->
                                   {Float(x) : x \in numeric[f]}],
                           exclude_textual_field_values |-> textual,
                           entries |-> <<>>]

\* what a call leaves alone
IngestFrame ==
    UNCHANGED <<pc, sections, frame, slots, combined_slot, max_weight_cost,
                extra_weight_cost, reduced, solution, heap, query, top_ten,
                best_for_modifier_gte, database>>

\* database.import_csv_row(row)
ImportCsvRow ==
    /\ pc = "ingest"
    /\ collection.class = "EquipmentDatabase"
    /\ Len(added) < MaxRows
    /\ \E row \in CsvRows :
          /\ operands' = row
          /\ added' = Append(added, row)
          /\ collection' = import_csv_row(collection, row).self
          /\ result' = import_csv_row(collection, row).raised
    /\ IngestFrame

\* collection.process_row(row)
ProcessRow ==
    /\ pc = "ingest"
    /\ collection.class = "EquipmentCollection"
    /\ Len(added) < MaxRows
    /\ \E row \in CsvRows :
          /\ operands' = row
          /\ added' = Append(added, row)
          /\ collection' = process_row(collection, row).self
          /\ result' = process_row(collection, row).raised
    /\ IngestFrame

\* the next row of `for entry in reader.rows(...)`; an exception ends the
\* generator
ReaderRow ==
    /\ pc = "ingest"
    /\ collection.class = "Reader"
    /\ Len(added) < MaxRows
    /\ result \in {"no call", "returned"}
    /\ \E row \in ReaderRows :
          /\ operands' = row
          /\ added' = Append(added, row)
          /\ collection' = rows(collection, row).self
          /\ result' = rows(collection, row).raised
    /\ IngestFrame

NextIngest == ImportCsvRow \/ ProcessRow \/ ReaderRow

SpecIngest == InitIngest /\ [][NextIngest]_vars

(***************************************************************************)
(* optimizer.py: Database (lines 75-88).  The object is held in the        *)
(* variable database, with the fields name_to_data and position_to_names;  *)
(* the entries of the last add_entries call are in `operands`, and         *)
(* `result` is "returned" or the name of the exception the call raised.    *)
(* An entry's data holds its textual_fields, a dict that has the position  *)
(* field or lacks it.                                                      *)
(***************************************************************************)
PieceNames == {"x", "y"}

Positions == {"head", "chest"}

\* the position_field of the Database
position_field == "position"

Entries ==
    [name : PieceNames,
     data : [textual_fields :
                 Dicts({position_field}, [position |-> Positions])]]

\* the lists of entries passed to one call
EntryLists == UNION {[1..n -> Entries] : n \in 0..MaxEntries}

\* lines 78-80
EmptyDatabase == [name_to_data |-> <<>>, position_to_names |-> <<>>]

\* lines 82-88: the database after the call and how the call ended; the
\* subscript of line 87 raises KeyError after line 86 stored the data
RECURSIVE add_entries(_, _)
add_entries(self, entries) ==
    IF entries = <<>> THEN [self |-> self, raised |-> "returned"]
    ELSE LET entry == Head(entries)
             stored == [self EXCEPT !.name_to_data =
                           DictSet(@, entry.name, entry.data)]
         IN IF position_field \notin DOMAIN entry.data.textual_fields
            THEN [self |-> stored, raised |-> "KeyError"]
            ELSE LET position == entry.data.textual_fields[position_field]
                     names == RowGet(stored.position_to_names, position, {})
                 IN add_entries(
                        [stored EXCEPT !.position_to_names =
                            DictSet(@, position, names \cup {entry.name})],
                        Tail(entries))

InitDatabase ==
    /\ pc = "database"
    /\ sections = <<>>
    /\ frame = None
    /\ slots = <<>>
    /\ heap = <<>>
    /\ best_for_modifier_gte = None
    /\ added = <<>>
    /\ combined_slot = None
    /\ max_weight_cost = None
    /\ extra_weight_cost = None
    /\ reduced = None
    /\ solution = None
    /\ query = None
    /\ top_ten = None
    /\ operands = <<>>
    /\ result = "no call"
    /\ collection = None
    /\ database = EmptyDatabase

\* database.add_entries(entries)
AddEntries ==
    /\ pc = "database"
    /\ \E entries \in EntryLists :
          LET r == add_entries(database, entries)
          IN /\ database' = r.self
             /\ result' = r.raised
             /\ operands' = entries
    /\ UNCHANGED <<pc, sections, frame, slots, combined_slot, max_weight_cost,
                   extra_weight_cost, reduced, solution, heap, query, top_ten,
                   best_for_modifier_gte, added, collection>>

NextDatabase == AddEntries

SpecDatabase == InitDatabase /\ [][NextDatabase]_vars

(***************************************************************************)
(* optimizer.py: SolutionSet.__init__ (lines 224-243) and the loop of      *)
(* Optimizer.__init__ (lines 264-274).  The Optimizer under construction   *)
(* is held in `result`, with the fields full_extents and solution_sets;    *)
(* the arguments of the last SolutionSet call are in `operands`.           *)
(***************************************************************************)
\* lines 25-35: least weight, largest weight_multiplier, largest value
MetricsLt(self, other) ==
    \/ RLt(self.weight, other.weight)
    \/ /\ self.weight = other.weight
       /\ \/ RLt(other.weight_multiplier, self.weight_multiplier)
          \/ /\ self.weight_multiplier = other.weight_multiplier
             /\ self.value > other.value

\* min(a, b) of two floats
RMin(a, b) == IF RLt(b, a) THEN b ELSE a

\* heapq.heappushpop(heap, item), the heap after the call.  Only math.prod
\* reads the heap, so it is kept as an ascending list, smallest first.
RECURSIVE HeapInsert(_, _)
HeapInsert(h, item) ==
    IF h = <<>> THEN <<item>>
    ELSE IF RLt(item, Head(h)) THEN <<item>> \o h
    ELSE <<Head(h)>> \o HeapInsert(Tail(h), item)

heappushpop(h, item) ==
    IF h # <<>> /\ RLt(Head(h), item)
    THEN HeapInsert(Tail(h), item)
    ELSE h

\* math.prod
RECURSIVE prod(_)
prod(s) == IF s = <<>> THEN One ELSE RMul(Head(s), prod(Tail(s)))

\* lines 229-235, called by sorted() on every solution in the given order
RECURSIVE sort_by_metrics_and_measure_extents(_, _, _)
sort_by_metrics_and_measure_extents(solutions, weight_multiplier_heap, minimum_weight) ==
    IF solutions = <<>>
    THEN [weight_multiplier_heap |-> weight_multiplier_heap,
          minimum_weight |-> minimum_weight]
    ELSE sort_by_metrics_and_measure_extents(
             Tail(solutions),
             heappushpop(weight_multiplier_heap,
                         Head(solutions).metrics.weight_multiplier),
             RMin(Head(solutions).metrics.weight, minimum_weight))

\* sorted(solutions, key=...): Metrics.__lt__ is a total order, the sort is
\* stable
RECURSIVE InsertByMetrics(_, _)
InsertByMetrics(done, sol) ==
    IF done = <<>> THEN <<sol>>
    ELSE IF MetricsLt(sol.metrics, Head(done).metrics) THEN <<sol>> \o done
    ELSE <<Head(done)>> \o InsertByMetrics(Tail(done), sol)

RECURSIVE SortedByMetrics(_, _)
SortedByMetrics(solutions, done) ==
    IF solutions = <<>> THEN done
    ELSE SortedByMetrics(Tail(solutions),
                         InsertByMetrics(done, Head(solutions)))

\* lines 224-243
SolutionSet(solutions, count) ==
    LET measured == sort_by_metrics_and_measure_extents(
                        solutions, [i \in 1..count |-> One], Zero)
    IN [count |-> count,
        solutions |-> SortedByMetrics(solutions, <<>>),
        extents |-> Extents(measured.minimum_weight,
                            prod(measured.weight_multiplier_heap))]

\* the metrics of the pieces of a position (Database.metrics, lines 90-98)
PieceMetrics ==
    {Metrics(Rat(w, 1), Rat(m, 1), 1) : w \in 0..MaxSolutionWeight,
                                        m \in 1..MaxMultiplier}

\* lines 100-109: the solutions of a position, in the order of the set
PositionSolutions ==
    UNION {[1..n -> {Solution(0, m) : m \in PieceMetrics}]
           : n \in 1..MaxPieces}

\* line 265-266
InitSolutionSets ==
    /\ pc = "solution sets"
    /\ sections = <<>>
    /\ frame = None
    /\ slots = <<>>
    /\ heap = <<>>
    /\ best_for_modifier_gte = None
    /\ added = <<>>
    /\ combined_slot = None
    /\ max_weight_cost = None
    /\ extra_weight_cost = None
    /\ reduced = None
    /\ solution = None
    /\ query = None
    /\ top_ten = None
    /\ operands = None
    /\ result = [full_extents |-> Extents(Zero, One), solution_sets |-> <<>>]
    /\ collection = None
    /\ database = None

\* lines 267-274: one iteration of the loop of Optimizer.__init__
NewSolutionSet ==
    /\ pc = "solution sets"
    /\ Len(result.solution_sets) < MaxPositions
    /\ \E solutions \in PositionSolutions, count \in Counts :
          LET solution_set == SolutionSet(solutions, count)
          IN /\ operands' = [solutions |-> solutions, count |-> count]
             /\ result' = [full_extents |->
                               ExtentsAdd(result.full_extents,
                                          solution_set.extents),
                           solution_sets |->
                               Append(result.solution_sets, solution_set)]
    /\ UNCHANGED <<pc, sections, frame, slots, combined_slot, max_weight_cost,
                   extra_weight_cost, reduced, solution, heap, query, top_ten,
                   best_for_modifier_gte, added, ingest_vars>>

NextSolutionSets == NewSolutionSet

SpecSolutionSets == InitSolutionSets /\ [][NextSolutionSets]_vars

(***************************************************************************)
(* Properties                                                              *)
(***************************************************************************)
Range(s) == {s[i] : i \in 1..Len(s)}

Min(a, b) == IF a < b THEN a ELSE b

\* a is no worse than b in cost, modifier and value
WeaklyDominates(a, b) ==
    /\ RLe(a.weight.cost, b.weight.cost)
    /\ RLe(b.weight.modifier, a.weight.modifier)
    /\ a.value >= b.value

StrictlyDominates(a, b) ==
    /\ WeaklyDominates(a, b)
    /\ \/ RLt(a.weight.cost, b.weight.cost)
       \/ RLt(b.weight.modifier, a.weight.modifier)
       \/ a.value > b.value

Constructed == pc = "construct" /\ frame.pc = "done"

\* C1: after a reduction with count = 1, no surviving candidate is strictly
\* dominated (cost <=, modifier >=, value >=, one of them strict) by another
\* surviving candidate, whatever the order of the input list.
C1_NoSurvivorDominated ==
    (Constructed /\ sections[1].count = 1) =>
        \A i, j \in 1..Len(frame.items) :
            ~StrictlyDominates(frame.items[i], frame.items[j])

\* the selections of k distinct items of a list, by index
Selections(n, k) == {S \in SUBSET (1..n) : Cardinality(S) = k}

\* the combined candidate of a selection (brute force)
RECURSIVE Selected(_, _)
Selected(items, S) ==
    IF S = {} THEN ZERO
    ELSE LET i == CHOOSE x \in S : \A y \in S : x <= y
         IN ItemAdd(items[i], Selected(items, S \ {i}), 0)

\* candidate c fits the threshold set by the cost and modifier of t
Fits(c, t) ==
    /\ RLe(c.weight.cost, t.weight.cost)
    /\ RLe(t.weight.modifier, c.weight.modifier)

\* C2: for count = k > 1 and every threshold (the cost and modifier of a
\* selection of k distinct items of the original list), the reduced slot
\* holds a candidate that fits the threshold and whose value is the
\* brute-force maximum over the selections of k distinct items that fit it.
C2_OptimalSelectionKept ==
    (Constructed /\ sections[1].count > 1
        /\ Len(sections[1].names) >= sections[1].count) =>
        LET original == SectionItems(sections[1].names, 0)
            all == {Selected(original, S) :
                        S \in Selections(Len(original), sections[1].count)}
        IN \A t \in all :
              \E c \in Range(frame.items) :
                  /\ Fits(c, t)
                  /\ \A x \in all : Fits(x, t) => c.value >= x.value

\* C3: after every add, lookup at a modifier m that some added candidate
\* reaches returns a candidate with modifier >= m whose value is the maximum
\* among the added candidates with modifier >= m.
C3_LookupReturnsBest ==
    pc = "test" =>
        \A m \in TestNumbers :
            LET reach == {i \in 1..Len(added) :
                             RLe(<<m, 1>>, added[i].weight.modifier)}
                found == BestLookup(best_for_modifier_gte, <<m, 1>>)
            IN reach # {} =>
                  /\ ~found.raised
                  /\ RLe(<<m, 1>>, found.item.weight.modifier)
                  /\ \A i \in reach : found.item.value >= added[i].value

WeightValues(items) == {<<items[i].weight, items[i].value>> : i \in 1..Len(items)}

\* folding the slots left to right, one at a time
RECURSIVE FoldSlots(_, _, _)
FoldSlots(acc, rest, h) ==
    IF rest = <<>> THEN acc
    ELSE LET r == SlotAdd(acc, Head(rest), h)
         IN FoldSlots(SlotObject(r), Tail(rest), r.heap)

\* the cross-product of all slots, not reduced
RECURSIVE CrossProduct(_, _, _)
CrossProduct(acc, rest, h) ==
    IF rest = <<>> THEN [items |-> acc, heap |-> h]
    ELSE CrossProduct(PairItems(acc, Head(rest).items, Len(h)), Tail(rest),
                      PairHeap(acc, Head(rest).items, h))

\* C4: for a fixed list of reduced slots, combine_in_pairs yields the same
\* set of (weight, value) candidates as folding the slots left to right and
\* as reducing the cross-product of all slots at once (stated for the lists
\* of two slots or more, where something is merged).
C4_MergeOrderIrrelevant ==
    (pc = "combined" /\ Len(sections) > 1) =>
        LET built == BuildSlots(sections, <<>>, <<>>)
            fold == FoldSlots(built.slots[1], Tail(built.slots), built.heap)
            cross == CrossProduct(built.slots[1].items, Tail(built.slots),
                                  built.heap)
            full == KnapsackItemSlot(cross.items, 1, FALSE, TRUE, cross.heap)
        IN /\ WeightValues(combined_slot.items) = WeightValues(fold.items)
           /\ WeightValues(combined_slot.items) = WeightValues(full.items)

\* the candidates of the solution in the order of _sorted_weights
Frontier ==
    [k \in 1..Len(solution.sorted_weights) |->
        solution.items[solution.sorted_weights[k]]]

\* C5: every candidate of the Frontier has modifier 1.0 and cost
\* (original cost + extra_cost) / (max_cost * original modifier), also when
\* extra_cost = 0 and the candidate's modifier is 1.0.
C5_FrontierCostsAreFractions ==
    pc = "solved" =>
        \A k \in 1..Len(Frontier) :
            \A o \in Range(combined_slot.items) :
                o.name = Frontier[k].name =>
                    Frontier[k].weight =
                        KnapsackWeight(
                            RDiv(RAdd(o.weight.cost, extra_weight_cost),
                                 RMul(max_weight_cost, o.weight.modifier)),
                            One)

\* C6: the Frontier is in strictly ascending cost, its values do not decrease
\* along it, and it holds every candidate of the reduced list it was built
\* from.
C6_FrontierSorted ==
    pc = "solved" =>
        /\ \A k \in 1..(Len(Frontier) - 1) :
              /\ RLt(Frontier[k].weight.cost, Frontier[k + 1].weight.cost)
              /\ Frontier[k].value <= Frontier[k + 1].value
        /\ \A i \in 1..Len(reduced) : reduced[i] \in Range(Frontier)

\* the list best_for_cost returned (None: no candidate)
Returned == IF top_ten.is_none THEN <<>> ELSE top_ten.list

\* C7: best_for_cost(budget, k) returns at most k candidates, none above the
\* budget: the min(k, n) Frontier candidates of largest cost <= budget, from
\* the highest cost downward (n: the candidates with cost <= budget).
C7_BestForCostExact ==
    pc = "queried" =>
        LET fits == {c \in Range(Frontier) : RLe(c.weight.cost, query.cost)}
        IN /\ Len(Returned) <= query.count
           /\ Len(Returned) = Min(query.count, Cardinality(fits))
           /\ \A j \in 1..Len(Returned) : Returned[j] \in fits
           /\ \A j \in 1..(Len(Returned) - 1) :
                 RLt(Returned[j + 1].weight.cost, Returned[j].weight.cost)
           /\ \A c \in fits \ Range(Returned) :
                 \A j \in 1..Len(Returned) :
                     RLe(c.weight.cost, Returned[j].weight.cost)

\* C8: for budgets b1 <= b2 with non-empty results, the first candidate
\* returned for b2 has a value >= that of the first returned for b1.
C8_BestValueMonotone ==
    (pc = "queried" /\ Len(Returned) > 0) =>
        \A b1 \in Budgets :
            LET lower == best_for_cost(solution, b1, query.count)
            IN (RLe(b1, query.cost) /\ ~lower.is_none) =>
                  Returned[1].value >= lower.list[1].value

\* the queried cost is below the cost of every candidate (also: no candidate)
BelowCheapest ==
    \A k \in 1..Len(Frontier) : RLt(query.cost, Frontier[k].weight.cost)

\* C9: a query with a budget below the cheapest candidate, or of an empty
\* Frontier, returns an empty collection of candidates (a list, not None).
C9_ReturnsEmptyCollection ==
    (pc = "queried" /\ BelowCheapest) =>
        ~top_ten.is_none /\ top_ten.list = <<>>

\* C10: a count-1 slot holding A, B and C of the scenario, in any order,
\* reduces to exactly A and C.
C10_ScenarioKeepsAandC ==
    (Constructed /\ sections[1].count = 1
        /\ Range(sections[1].names) = {1, 2, 3}) =>
        {frame.items[i].name : i \in 1..Len(frame.items)} = {<<1>>, <<3>>}

\* the names of the items of a list
Names(items) == {items[i].name : i \in 1..Len(items)}

\* the first pass of a two-pick reduction is running or has just ended
InFirstPass == pc = "construct" /\ frame.count = 2 /\ frame.pc = "scan"

\* C11: for the 2-pick slot of R1 (cost 1, value 5), R2 (cost 1, value 5)
\* and R3 (cost 2, value 3), the first pass keeps both R1 and R2 in the list
\* (neither is deleted, neither is recorded as an alternative), and the
\* reduced slot holds the selection of the two identities R1 and R2.
C11_BothRingsRetained ==
    (pc = "construct" /\ sections[1].count = 2
        /\ Range(sections[1].names) = {7, 8, 9}) =>
        /\ InFirstPass =>
              /\ {<<7>>, <<8>>} \subseteq Names(frame.items)
              /\ \A i \in 1..Len(frame.heap) : frame.heap[i] = {}
        /\ frame.pc = "done" =>
              \E i \in 1..Len(frame.items) : Range(frame.items[i].name) = {7, 8}

C11_Witness ==
    /\ Constructed
    /\ sections[1].count = 2
    /\ Range(sections[1].names) = {7, 8, 9}
    /\ frame.passes = 2
    /\ Names(frame.items) = {<<7, 8>>}

\* the constructor call run to the end of its first pass (line 288)
RECURSIVE FirstPass(_)
FirstPass(f) ==
    IF f.pc = "scan" /\ f.index >= Len(f.items) THEN f ELSE FirstPass(Step(f))

\* the number of candidates the first pass leaves of the section
Survivors ==
    Len(FirstPass(Frame(SectionItems(sections[1].names, 0), sections[1].count,
                        FALSE, TRUE, SectionHeap(sections[1].names))).items)

\* C12: the construction does not fail on size grounds: an empty input list
\* yields an empty slot, and when count exceeds the candidates left by the
\* first pass every resulting candidate holds min(count, survivors) picks
\* (a slot with survivors is not emptied).
C12_CountClamped ==
    Constructed =>
        /\ sections[1].names = <<>> => frame.items = <<>>
        /\ Survivors > 0 => frame.items # <<>>
        /\ \A i \in 1..Len(frame.items) :
              Len(frame.items[i].name) = Min(sections[1].count, Survivors)

C12_Witness ==
    /\ Constructed
    /\ Survivors > 0
    /\ sections[1].count > Survivors
    /\ \A i \in 1..Len(frame.items) : Len(frame.items[i].name) = Survivors

\* C13: with duplicates disallowed and count = k > 1, every candidate of
\* the reduced slot names exactly min(k, survivors) items of the section,
\* and no item twice.
C13_NoItemTwice ==
    (Constructed /\ sections[1].count > 1) =>
        \A i \in 1..Len(frame.items) :
            LET name == frame.items[i].name
            IN /\ Len(name) = Min(sections[1].count, Survivors)
               /\ Range(name) \subseteq Range(sections[1].names)
               /\ \A x, y \in 1..Len(name) : x # y => name[x] # name[y]

C13_Witness ==
    /\ Constructed
    /\ sections[1].count = 2
    /\ Len(frame.items) > 1
    /\ \A i \in 1..Len(frame.items) : Cardinality(Range(frame.items[i].name)) = 2

\* a count-1 reduction is about to scan the candidate at frame.index
ScanningOne ==
    /\ pc = "construct"
    /\ sections[1].count = 1
    /\ frame.pc = "scan"
    /\ frame.index < Len(frame.items)

\* the candidate to scan has the weight and value of the last survivor
TiesLastSurvivor ==
    /\ frame.last_top_survivor # None
    /\ frame.items[frame.index + 1].weight = frame.last_top_survivor.weight
    /\ frame.items[frame.index + 1].value = frame.last_top_survivor.value

\* every identity in an alternatives set of a listed candidate is an item of
\* the section with the weight and the value of that candidate
AlternativesAreEqualItems ==
    \A i \in 1..Len(frame.items) :
        \A n \in frame.heap[frame.items[i].alternatives] :
            /\ Len(n) = 1
            /\ n[1] \in Range(sections[1].names)
            /\ KnapsackWeight(Catalogue[n[1]].cost, Catalogue[n[1]].modifier)
                   = frame.items[i].weight
            /\ Catalogue[n[1]].value = frame.items[i].value

\* C14: in a count-1 reduction, a scanned candidate with exactly the weight
\* and value of the last survivor leaves the list and its identity is in
\* that survivor's alternatives afterwards; no alternatives set loses an
\* element during a pass; and every identity recorded as an alternative has
\* the weight and value of its survivor.
C14_TiesBecomeAlternatives ==
    /\ [][ScanningOne =>
            /\ TiesLastSurvivor =>
                  /\ Len(frame'.items) = Len(frame.items) - 1
                  /\ frame.items[frame.index + 1].name \notin Names(frame'.items)
                  /\ frame.items[frame.index + 1].name
                        \in frame'.heap[frame.last_top_survivor.alternatives]
            /\ \A i \in 1..Len(frame.heap) :
                  frame.heap[i] \subseteq frame'.heap[i]]_vars
    /\ []((pc = "construct" /\ sections[1].count = 1) => AlternativesAreEqualItems)

C14_Witness ==
    /\ Constructed
    /\ sections[1].count = 1
    /\ Names(frame.items) = {<<7>>}
    /\ frame.heap[frame.items[1].alternatives] = {<<8>>}

\* no rounding happens in either grouping of a + b + c
ExactSums ==
    LET a == operands[1].weight
        b == operands[2].weight
        c == operands[3].weight
        exact(q) == RoundFloat(q) = q
    IN /\ exact(RAdd(a.cost, b.cost))
       /\ exact(RAdd(b.cost, c.cost))
       /\ exact(RAdd(RAdd(a.cost, b.cost), c.cost))
       /\ exact(RMul(a.modifier, b.modifier))
       /\ exact(RMul(b.modifier, c.modifier))
       /\ exact(RMul(RMul(a.modifier, b.modifier), c.modifier))

\* a + b has the cost a.cost + b.cost and the modifier a.modifier * b.modifier
\* (as floats), and the weight and value of b + a
AddsAndCommutes ==
    /\ result.ab.weight.cost
          = FloatAdd(operands[1].weight.cost, operands[2].weight.cost)
    /\ result.ab.weight.modifier
          = FloatMul(operands[1].weight.modifier, operands[2].weight.modifier)
    /\ result.ab.weight = result.ba.weight
    /\ result.ab.value = result.ba.value

SumOfPair(a, b) ==
    LET items == PairItems(<<a>>, <<b>>, Len(heap))
        sets == PairHeap(<<a>>, <<b>>, heap)
    IN /\ items[1].name = a.name \o b.name
       /\ items[1].weight.cost = RAdd(a.weight.cost, b.weight.cost)
       /\ items[1].weight.modifier = RMul(a.weight.modifier, b.weight.modifier)
       /\ items[1].value = a.value + b.value
       /\ sets[items[1].alternatives] = heap[a.alternatives] \cup heap[b.alternatives]

\* a + ZERO and ZERO + a have the identity, weight and value of a
ZeroIsNeutral(a) ==
    /\ \A s \in {ItemAdd(a, ZERO, 0), ItemAdd(ZERO, a, 0)} :
          s.name = a.name /\ s.weight = a.weight /\ s.value = a.value

\* C16: a + b has the identity of a followed by that of b, the union of both
\* alternatives sets, the combined weight and the sum of the values;
\* combining with KnapsackItem.ZERO on either side gives the identity,
\* weight and value of the other operand; and every candidate that
\* combine_in_pairs returns names one item of each input slot, in the order
\* of the slots.
C16_IdentitiesInSlotOrder ==
    /\ (pc = "combine" /\ Len(slots) > 1) =>
          \A i \in 1..Len(slots[1].items), j \in 1..Len(slots[2].items) :
              /\ SumOfPair(slots[1].items[i], slots[2].items[j])
              /\ ZeroIsNeutral(slots[1].items[i])
    /\ pc = "combined" =>
          \A i \in 1..Len(combined_slot.items) :
              LET name == combined_slot.items[i].name
              IN /\ Len(name) = Len(sections)
                 /\ \A k \in 1..Len(name) : name[k] \in Range(sections[k].names)

C16_Witness ==
    /\ pc = "combined"
    /\ Len(sections) = 3
    /\ \E i \in 1..Len(combined_slot.items) :
          /\ combined_slot.items[i].name = <<1, 6, 2>>
          /\ heap[combined_slot.items[i].alternatives] # {}

\* C17: the order of KnapsackWeight is a strict total order on the pairs
\* (cost, modifier): ascending cost, then descending modifier; of a < b,
\* a == b and b < a exactly one holds, and < is transitive.
C17_WeightOrderTotal ==
    pc = "compared" =>
        \A i, j, k \in 1..3 :
            LET a == operands[i].weight
                b == operands[j].weight
            IN /\ result.lt[i][j] <=>
                     \/ RLt(a.cost, b.cost)
                     \/ a.cost = b.cost /\ RLt(b.modifier, a.modifier)
               /\ result.eq[i][j] <=> (a.cost = b.cost /\ a.modifier = b.modifier)
               /\ Cardinality({x \in {"lt", "eq", "gt"} :
                       \/ x = "lt" /\ result.lt[i][j]
                       \/ x = "eq" /\ result.eq[i][j]
                       \/ x = "gt" /\ result.lt[j][i]}) = 1
               /\ (result.lt[i][j] /\ result.lt[j][k]) => result.lt[i][k]

C17_Witness ==
    /\ pc = "compared"
    /\ operands[1].weight.cost = operands[2].weight.cost
    /\ operands[2].weight.cost = operands[3].weight.cost
    /\ result.lt[1][2]
    /\ result.lt[2][3]
    /\ result.lt[1][3]

\* the candidates of a slot without their alternatives sets
Plain(slot) ==
    [k \in 1..Len(slot.items) |->
        <<slot.items[k].name, slot.items[k].weight, slot.items[k].value>>]

\* one round: the neighbours (1,2), (3,4), ... are replaced by their
\* combinations, a last slot without a pair stays last and unchanged, and
\* the list shrinks from n to ceil(n / 2)
RoundHalves ==
    (pc = "combine" /\ Len(slots) > 1) =>
        /\ pc' = "combine"
        /\ Len(slots') = (Len(slots) + 1) \div 2
        /\ \A i \in 1..(Len(slots) \div 2) :
              Plain(slots'[i])
                  = Plain(SlotAdd(slots[2 * i - 1], slots[2 * i], heap))
        /\ Len(slots) % 2 = 1 => slots'[Len(slots')] = slots[Len(slots)]

\* a list of one slot is returned as it is
ReturnsTheLastSlot ==
    (pc = "combine" /\ Len(slots) = 1) =>
        pc' = "combined" /\ combined_slot' = slots[1]

\* C18: combine_in_pairs on n >= 1 slots ends with exactly one slot; each
\* round replaces the neighbours (0,1), (2,3), ... by their combination,
\* carries an unpaired last slot unchanged to the end of the next list, and
\* takes the length from n to ceil(n / 2).
C18_PairingTerminates ==
    /\ [][RoundHalves /\ ReturnsTheLastSlot]_vars
    /\ <>(pc = "combined" /\ Len(slots) = 1 /\ combined_slot = slots[1])

C18_Witness ==
    /\ pc = "combined"
    /\ Len(sections) = 3
    /\ Len(slots) = 1
    /\ combined_slot = slots[1]

\* the alternatives set of every candidate of the source slot
SourceAlternatives(h) ==
    [k \in 1..Len(combined_slot.items) |-> h[combined_slot.items[k].alternatives]]

\* C19: solution_by_weight_percentage leaves the candidates of the slot it
\* is called on, their alternatives sets included, as they were before the
\* call.
C19_SourceSlotUnchanged ==
    [][pc = "combined" =>
          /\ combined_slot' = combined_slot
          /\ SourceAlternatives(heap') = SourceAlternatives(heap)]_vars

\* the added solutions whose own weight multiplier is at least w
AtLeast(w) ==
    {s \in {added[i] : i \in 1..Len(added)} :
        RLe(w, s.metrics.weight_multiplier)}

\* C20: after any sequence of add calls, lookup(w) returns None exactly
\* when no added solution has a weight multiplier >= w, and otherwise an
\* added solution with a weight multiplier >= w whose value is the highest
\* among the added solutions with a weight multiplier >= w.
C20_LookupReturnsTheBest ==
    pc = "looked up" =>
        /\ result = None <=> AtLeast(operands) = {}
        /\ result # None =>
              /\ result \in AtLeast(operands)
              /\ \A s \in AtLeast(operands) :
                    s.metrics.value <= result.metrics.value

\* a lookup below a multiplier added last and with a low value returns the
\* better solution of a higher multiplier that was added before
C20_Witness ==
    /\ pc = "looked up"
    /\ Len(added) = 3
    /\ added[3].metrics.weight_multiplier = Rat(1, 1)
    /\ operands = Rat(1, 2)
    /\ result # None
    /\ result.metrics.value > added[3].metrics.value
    /\ RLt(added[3].metrics.weight_multiplier,
           result.metrics.weight_multiplier)

\* no recorded modifier is as large as `modifier`
PastTheEnd(keys, modifier) == \A i \in 1..Len(keys) : RLt(keys[i], modifier)

\* the scan is about to look up an item whose modifier is past the end
ScanPastTheEnd ==
    /\ pc = "construct"
    /\ frame.pc = "scan"
    /\ frame.index < Len(frame.items)
    /\ PastTheEnd(frame.best_for_modifier_gte.keys,
                  frame.items[frame.index + 1].weight.modifier)

\* C21: a lookup at a modifier larger than every recorded one, also in an
\* empty table, reports that there is no candidate (IndexError in
\* generate_report.py, None in optimizer.py) and leaves the table as it was;
\* the scan then takes the item as not dominated: it stays in the list and
\* becomes the last top survivor.
C21_LookupPastTheEnd ==
    [][/\ (pc = "test" /\ pc' = "test looked up"
             /\ PastTheEnd(best_for_modifier_gte.keys, operands'))
           => /\ result'.raised
              /\ best_for_modifier_gte' = best_for_modifier_gte
       /\ (pc = "optimizer" /\ pc' = "looked up"
             /\ PastTheEnd(best_for_modifier_gte.sorted_weight_multipliers,
                           operands'))
           => /\ result' = None
              /\ best_for_modifier_gte' = best_for_modifier_gte
       /\ ScanPastTheEnd
           => /\ frame'.items = frame.items
              /\ frame'.index = frame.index + 1
              /\ frame'.last_top_survivor = frame.items[frame.index + 1]
              /\ frame'.lesser_item_count = frame.lesser_item_count]_vars

\* the scan has just taken an item whose modifier was larger than the ones
\* recorded before it: it is the last top survivor under the largest key and
\* the first item of the list with that modifier
C21_Witness ==
    /\ pc = "construct"
    /\ frame.pc = "scan"
    /\ frame.index >= 2
    /\ Len(frame.best_for_modifier_gte.keys) = 2
    /\ frame.last_top_survivor = frame.items[frame.index]
    /\ frame.last_top_survivor.weight.modifier
          = frame.best_for_modifier_gte.keys[2]
    /\ \A i \in 1..(frame.index - 1) :
          frame.items[i].weight.modifier # frame.last_top_survivor.weight.modifier

\* the extents of a single solution: its weight and its weight multiplier
ExtentsOf(s) == Extents(s.metrics.weight, s.metrics.weight_multiplier)

\* C22: the sum of two Solutions has the sum of the weights, the sum of the
\* values, and the product of the weight multipliers, as Extents.__add__
\* has for maximum_weight_multiplier.
C22_MultipliersMultiply ==
    pc = "solutions added" =>
        /\ result.metrics.weight
              = RAdd(operands[1].metrics.weight, operands[2].metrics.weight)
        /\ result.metrics.value
              = operands[1].metrics.value + operands[2].metrics.value
        /\ result.metrics.weight_multiplier
              = RMul(operands[1].metrics.weight_multiplier,
                     operands[2].metrics.weight_multiplier)
        /\ ExtentsOf(result)
              = ExtentsAdd(ExtentsOf(operands[1]), ExtentsOf(operands[2]))

\* the inner loop stands at an item
Scanning ==
    pc = "construct" /\ frame.pc = "scan" /\ frame.index < Len(frame.items)

\* one iteration of the inner loop deletes the current item or advances
DeletesOrAdvances ==
    Scanning =>
        \/ /\ frame'.items = DeleteAt(frame.items, frame.index)
           /\ frame'.index = frame.index
        \/ /\ frame'.items = frame.items
           /\ frame'.index = frame.index + 1

\* the combination step sets count to 1, and does not run in a second pass
CombinesOnce ==
    (pc = "construct" /\ frame.pc = "scan" /\ frame'.pc = "sort") =>
        frame.passes = 1 /\ frame'.count = 1

\* C23: the reduction terminates after at most two sort-and-scan passes;
\* each step of the inner scan deletes the current candidate or advances the
\* index, and the combination step leaves count at 1 and runs at most once.
C23_ReductionTerminates ==
    /\ [](frame.passes <= 2)
    /\ [][DeletesOrAdvances /\ CombinesOnce]_vars
    /\ <>(frame.pc = "done" /\ pc # "construct")

\* a reduction that combined has ended after its second pass
C23_Witness ==
    /\ frame.pc = "done"
    /\ frame.passes = 2
    /\ sections[1].count = 2
    /\ Len(sections[1].names) = MaxItems

\* the item the inner loop stands at
Current == frame.items[frame.index + 1]

\* lines 249-256: the scan found the current item dominated or tying the
\* last top survivor, which is when it writes lesser_item_count
FoundDominated == frame'.lesser_item_count # frame.lesser_item_count

\* the variable `dominated` at line 266: the count written last, under the
\* last top survivor's name after a tie and under the item's name otherwise
TrackedCount ==
    IF frame.last_top_survivor # None
       /\ IsAlternative(Current, frame.last_top_survivor)
    THEN frame'.lesser_item_count[frame.last_top_survivor.name]
    ELSE frame'.lesser_item_count[Current.name]

Deleted == frame'.items = DeleteAt(frame.items, frame.index)

CsvNameless(row) == RowGet(row, "name", "") = ""

ReaderNameless(row) == RowGet(row, "name", Str("")) = Str("")

\* C25: a row that is not excluded and has an empty or missing name makes
\* import_csv_row, process_row and Reader.rows raise, with self.pieces as
\* before and no Entry yielded for it; an excluded row is skipped without
\* an error, with or without a name.
C25_NamelessRowRejected ==
    [][/\ (pc = "ingest" /\ collection.class # "Reader") =>
             /\ is_csv_row_excluded(collection, operands') =>
                   result' = "returned" /\ collection' = collection
             /\ (/\ ~is_csv_row_excluded(collection, operands')
                 /\ CsvNameless(operands')) =>
                   result' = "ValueError" /\ collection' = collection
       /\ (pc = "ingest" /\ collection.class = "Reader") =>
             /\ is_row_excluded(collection, operands') = "excluded" =>
                   result' = "returned" /\ collection' = collection
             /\ (/\ is_row_excluded(collection, operands') = "not excluded"
                 /\ ReaderNameless(operands')) =>
                   result' = "ValueError" /\ collection' = collection]_vars

\* an EquipmentDatabase that holds a piece has refused a nameless row that
\* carries other fields
C25_Witness ==
    /\ pc = "ingest"
    /\ collection.class = "EquipmentDatabase"
    /\ Len(added) = 2
    /\ DOMAIN collection.pieces # {}
    /\ ~is_csv_row_excluded(collection, operands)
    /\ CsvNameless(operands)
    /\ "stat" \in DOMAIN operands
    /\ result = "ValueError"

\* C26: KnapsackItem.__lt__ is a strict order that refines the weight
\* order: never a < b and b < a together, and a.weight < b.weight gives
\* a < b and not b < a, whatever the values and names are.
C26_ItemOrderRefinesWeightOrder ==
    pc = "items compared" =>
        \A i, j \in 1..3 :
            /\ ~(result[i][j] /\ result[j][i])
            /\ WeightLt(operands[i].weight, operands[j].weight) =>
                  result[i][j] /\ ~result[j][i]

\* the surviving candidates of a reduced list: identity, weight and value
SurvivingCandidates(items) ==
    {[identity |-> Range(items[i].name), weight |-> items[i].weight,
      value |-> items[i].value] : i \in 1..Len(items)}

\* the orders in which the same candidates may be given
Reorderings(names) ==
    {[i \in 1..Len(names) |-> names[p[i]]] :
        p \in Permutations(1..Len(names))}

\* C27: the reduced slot is a function of the multiset of input candidates:
\* the constructor run on any reordering of the same candidate list, with
\* the same count, leaves the same set of surviving (identity, weight,
\* value) candidates.
C27_ReductionIgnoresInputOrder ==
    Constructed =>
        \A q \in Reorderings(sections[1].names) :
            SurvivingCandidates(
                KnapsackItemSlot(SectionItems(q, 0), sections[1].count,
                                 FALSE, TRUE, SectionHeap(q)).items)
                = SurvivingCandidates(frame.items)

\* the table (key list, dictionary) is well formed; modifier and value give
\* the modifier and the value of a stored candidate
WellFormed(keys, dict, modifier(_), value(_)) ==
    /\ \A i \in 1..(Len(keys) - 1) : RLt(keys[i], keys[i + 1])
    /\ Range(keys) = DOMAIN dict
    /\ \A i \in 1..Len(keys) : RLe(keys[i], modifier(dict[keys[i]]))
    /\ \A i \in 1..(Len(keys) - 1) :
          value(dict[keys[i]]) >= value(dict[keys[i + 1]])

ItemModifier(item) == item.weight.modifier
ItemValue(item) == item.value
SolutionMultiplier(sol) == sol.metrics.weight_multiplier
SolutionValue(sol) == sol.metrics.value

\* C28: after every add on either frontier table, the key list is strictly
\* ascending and holds exactly the keys of the dictionary, every stored
\* candidate has a modifier >= the key it is stored under, and the stored
\* values do not increase as the key increases.
C28_TableWellFormed ==
    /\ pc \in {"test", "test looked up"} =>
          WellFormed(best_for_modifier_gte.keys, best_for_modifier_gte.dict,
                     ItemModifier, ItemValue)
    /\ pc = "construct" =>
          WellFormed(frame.best_for_modifier_gte.keys,
                     frame.best_for_modifier_gte.dict,
                     ItemModifier, ItemValue)
    /\ pc \in {"optimizer", "looked up"} =>
          WellFormed(best_for_modifier_gte.sorted_weight_multipliers,
                     best_for_modifier_gte.best_at_least,
                     SolutionMultiplier, SolutionValue)

\* three adds left three keys, the smallest of them holding a candidate of a
\* larger modifier
C28_Witness ==
    /\ pc = "test"
    /\ Len(added) = 3
    /\ Len(best_for_modifier_gte.keys) = 3
    /\ RLt(best_for_modifier_gte.keys[1],
           best_for_modifier_gte.dict[best_for_modifier_gte.keys[1]]
               .weight.modifier)

\* the position of the data stored for a name, if it has one
StoredAt(n, p) ==
    /\ n \in DOMAIN database.name_to_data
    /\ position_field \in DOMAIN database.name_to_data[n].textual_fields
    /\ database.name_to_data[n].textual_fields[position_field] = p

\* C29: after any sequence of add_entries calls, replacements included, a
\* name is in position_to_names[p] if and only if the data currently stored
\* for that name has position p.
C29_PositionsConsistent ==
    (pc = "database" /\ result = "returned") =>
        \A n \in PieceNames, p \in Positions :
            n \in RowGet(database.position_to_names, p, {}) <=> StoredAt(n, p)

\* the smallest weight among the solutions of a non-empty list
MinimumWeight(solutions) ==
    CHOOSE w \in {solutions[i].metrics.weight : i \in 1..Len(solutions)} :
        \A i \in 1..Len(solutions) : RLe(w, solutions[i].metrics.weight)

\* C30: for a non-empty SolutionSet, extents.minimum_weight is the smallest
\* weight among its solutions, so the sum of the extents of the Optimizer's
\* SolutionSets is a lower bound built from the lightest pieces.
C30_MinimumWeightIsTheSmallest ==
    pc = "solution sets" =>
        \A i \in 1..Len(result.solution_sets) :
            LET solution_set == result.solution_sets[i]
            IN solution_set.solutions # <<>> =>
                   solution_set.extents.minimum_weight
                       = MinimumWeight(solution_set.solutions)

====
